---- MODULE Spec2Model ----
(***************************************************************************)
(* EchoVision: a FastAPI chat service (src/main.py) that sends each user   *)
(* message through a local language model, routes an embedded image        *)
(* directive of the reply to a diffusion model, and keeps a token-bounded  *)
(* history per session (src/core/llm/memory.py).                           *)
(*                                                                         *)
(* Python strings are modelled as sequences of one-character strings; a    *)
(* character outside printable ASCII is written by its code point, such as *)
(* "U+00E9".  len() is Len, s[a:b] is SubSeq with the indices shifted by   *)
(* one.                                                                    *)
(***************************************************************************)
EXTENDS Integers, Sequences, FiniteSets, TLC

VARIABLES
    mistral_handler,        \* main.py:33   "None" | "loaded"
    image_generator,        \* main.py:34   "None" | "loaded"
    settings,               \* main.py:30   the Settings() read at import
    language_handler,       \* main.py:35   the calls made on LanguageHandler() (SpecLanguage)
    conversation_memories,  \* main.py:36   session_id -> ConversationMemory (by object id)
    heap,                   \* the live ConversationMemory objects, by object id
    tasks,                  \* the request tasks of the event loop
    running,                \* the task the event loop is executing, or NoTask
    served,                 \* number of requests accepted so far
    exchange,               \* one routed exchange, outside any session (SpecRoute)
    conversations_dir,      \* memory.py:114  data/conversations: session_id -> file
    snapshots               \* history: the store each intact file was saved from

vars == <<mistral_handler, image_generator, settings, language_handler,
          conversation_memories, heap, tasks, running, served, exchange,
          conversations_dir, snapshots>>

-----------------------------------------------------------------------------
(* Python str operations *)

Min(S) == CHOOSE x \in S : \A y \in S : x <= y

Max(S) == CHOOSE x \in S : \A y \in S : x >= y

\* What str.strip() removes (the ASCII whitespace characters).
Whitespace == {" ", "\t", "\n", "\r", "\f", "U+000B"}

\* s.find(sub) + 1: the first position (from 1) at which sub occurs in s, or 0.
Find(s, sub) ==
    LET hits == {p \in 1..(Len(s) - Len(sub) + 1) :
                    \A j \in 1..Len(sub) : s[p + j - 1] = sub[j]}
    IN  IF hits = {} THEN 0 ELSE Min(hits)

\* sub in s
Contains(s, sub) == Find(s, sub) # 0

RECURSIVE LStripFrom(_, _)
\* The first position from i on that holds no whitespace (Len(s) + 1 if none).
LStripFrom(s, i) ==
    IF i > Len(s) THEN i
    ELSE IF s[i] \notin Whitespace THEN i ELSE LStripFrom(s, i + 1)

RECURSIVE RStripFrom(_, _)
\* The last position up to i that holds no whitespace (0 if none).
RStripFrom(s, i) ==
    IF i < 1 THEN i
    ELSE IF s[i] \notin Whitespace THEN i ELSE RStripFrom(s, i - 1)

\* s.strip()
Strip(s) == SubSeq(s, LStripFrom(s, 1), RStripFrom(s, Len(s)))

\* s.rfind(c) for a single character c: the last 0-based index of c, or -1.
RFind(s, c) ==
    LET hits == {i \in 1..Len(s) : s[i] = c}
    IN  IF hits = {} THEN -1 ELSE Max(hits) - 1

\* s[:n] for n >= 0
Prefix(s, n) == SubSeq(s, 1, IF n < Len(s) THEN n ELSE Len(s))

\* The upper-case letters that occur in the inputs, with their lower-case forms.
UpperToLower ==
    [c \in {"A", "C", "D", "E", "M", "R", "S", "W", "U+00C9"} |->
        CASE c = "A" -> "a" [] c = "C" -> "c" [] c = "D" -> "d" [] c = "E" -> "e"
          [] c = "M" -> "m" [] c = "R" -> "r" [] c = "S" -> "s" [] c = "W" -> "w"
          [] c = "U+00C9" -> "U+00E9"]

\* s.lower()
Lower(s) ==
    [i \in 1..Len(s) |-> IF s[i] \in DOMAIN UpperToLower THEN UpperToLower[s[i]] ELSE s[i]]

\* n repetitions of the character c
Rep(c, n) == [i \in 1..n |-> c]

RECURSIVE Concat(_)
\* "".join(parts)
Concat(parts) == IF parts = <<>> THEN <<>> ELSE Head(parts) \o Concat(Tail(parts))

RECURSIVE SumTokens(_)
\* sum(m["tokens"] for m in messages)
SumTokens(messages) ==
    IF messages = <<>> THEN 0 ELSE Head(messages).tokens + SumTokens(Tail(messages))

-----------------------------------------------------------------------------
(* ConversationMemory, src/core/llm/memory.py *)

\* memory.py:13, the default of __init__'s max_tokens
DEFAULT_MAX_TOKENS == 1000

\* A slip: ConversationMemory() built without the configured budget, so that
\* __init__'s default applies.
NewMemoryDefault(max_tokens) ==
    [max_tokens |-> DEFAULT_MAX_TOKENS, messages |-> <<>>, total_tokens |-> 0,
     appended |-> <<>>]

\* ConversationMemory.__init__.  appended is history kept for the statements
\* about eviction: every turn add_message has appended since construction or clear().
NewMemory(max_tokens) ==
    [max_tokens |-> max_tokens, messages |-> <<>>, total_tokens |-> 0, appended |-> <<>>]

\* A slip: the estimate taken of the two texts together.
MessageEntryCombined(human_message, ai_message) ==
    [human |-> human_message, ai |-> ai_message,
     tokens |-> (Len(human_message) + Len(ai_message)) \div 4]

\* The entry add_message builds (the timestamp plays no part in any decision and is left out).
MessageEntry(human_message, ai_message) ==
    [human |-> human_message, ai |-> ai_message,
     tokens |-> (Len(human_message) \div 4) + (Len(ai_message) \div 4)]

\* A slip: `if` for `while`, evicting at most one turn per insertion.
TrimMemoryOnce(m) ==
    IF m.total_tokens > m.max_tokens /\ Len(m.messages) > 1
    THEN [m EXCEPT !.messages = Tail(@), !.total_tokens = @ - Head(m.messages).tokens]
    ELSE m

RECURSIVE TrimMemoryEager(_)
\* A slip: `>=` for `>`, evicting although the total already fits.
TrimMemoryEager(m) ==
    IF m.total_tokens >= m.max_tokens /\ Len(m.messages) > 1
    THEN TrimMemoryEager([m EXCEPT !.messages = Tail(@),
                                   !.total_tokens = @ - Head(m.messages).tokens])
    ELSE m

RECURSIVE TrimMemory(_)
\* ConversationMemory._trim_memory
TrimMemory(m) ==
    IF m.total_tokens > m.max_tokens /\ Len(m.messages) > 1
    THEN TrimMemory([m EXCEPT !.messages = Tail(@),
                              !.total_tokens = @ - Head(m.messages).tokens])
    ELSE m

\* ConversationMemory.add_message
AddMessage(m, human_message, ai_message) ==
    LET message_entry == MessageEntry(human_message, ai_message)
    IN  TrimMemory([m EXCEPT !.messages = Append(@, message_entry),
                             !.total_tokens = @ + message_entry.tokens,
                             !.appended = Append(@, message_entry)])

\* ConversationMemory.clear
ClearMemory(m) == [m EXCEPT !.messages = <<>>, !.total_tokens = 0, !.appended = <<>>]

\* sep.join(parts)
RECURSIVE Join(_, _)

Join(parts, sep) ==
    IF parts = <<>> THEN <<>>
    ELSE IF Len(parts) = 1 THEN Head(parts)
    ELSE Head(parts) \o sep \o Join(Tail(parts), sep)

-----------------------------------------------------------------------------
(* ConversationMemory on disk: get_summary, save_to_file, load_from_file *)

DecimalDigits == <<"0", "1", "2", "3", "4", "5", "6", "7", "8", "9">>

RECURSIVE Decimal(_)
\* str(n) for n >= 0, as the f-string of memory.py:108 formats it
Decimal(n) ==
    IF n < 10 THEN <<DecimalDigits[n + 1]>>
    ELSE Decimal(n \div 10) \o <<DecimalDigits[(n % 10) + 1]>>

\* memory.py:95
NO_HISTORY ==
    <<"N", "o", " ", "c", "o", "n", "v", "e", "r", "s", "a", "t",
      "i", "o", "n", " ", "h", "i", "s", "t", "o", "r", "y", ".">>

\* memory.py:101
SUMMARY_TURNS == 3

\* memory.py:102
TOPIC_MIN_LENGTH == 20

\* memory.py:103-104
TOPIC_LENGTH == 50

ELLIPSIS == <<".", ".", ".">>

\* memory.py:103-105: the opening characters of one user text
Topic(human) ==
    IF Len(human) > TOPIC_LENGTH THEN Prefix(human, TOPIC_LENGTH) \o ELLIPSIS
    ELSE Prefix(human, TOPIC_LENGTH)

\* messages[-n:] for n > 0
LastTurns(messages, n) ==
    SubSeq(messages, IF Len(messages) > n THEN Len(messages) - n + 1 ELSE 1, Len(messages))

RECURSIVE RecentTopics(_)
\* memory.py:101-106: the topics of the substantial user texts, in order
RecentTopics(messages) ==
    IF messages = <<>> THEN <<>>
    ELSE IF Len(Head(messages).human) > TOPIC_MIN_LENGTH
         THEN <<Topic(Head(messages).human)>> \o RecentTopics(Tail(messages))
         ELSE RecentTopics(Tail(messages))

\* ConversationMemory.get_summary
GetSummary(m) ==
    IF m.messages = <<>> THEN NO_HISTORY
    ELSE LET recent_topics == RecentTopics(LastTurns(m.messages, SUMMARY_TURNS))
             summary ==
                <<"C", "o", "n", "v", "e", "r", "s", "a", "t", "i",
                  "o", "n", " ", "h", "i", "s", "t", "o", "r", "y",
                  ":", " ">>
                 \o Decimal(Len(m.messages)) \o
                <<" ", "e", "x", "c", "h", "a", "n", "g", "e", "s",
                  ".", " ">>
         IN  IF recent_topics # <<>>
             THEN summary \o
                  <<"R", "e", "c", "e", "n", "t", " ", "t", "o", "p",
                    "i", "c", "s", ":", " ">>
                  \o Join(recent_topics, <<";", " ">>)
             ELSE summary

\* A code point that UTF-8 cannot encode (a lone surrogate): writing it to a
\* file opened with encoding='utf-8' raises UnicodeEncodeError.
Surrogates == {"U+D800"}

\* Whether f.write(s) succeeds on the file of memory.py:135
Encodable(s) == \A i \in 1..Len(s) : s[i] \notin Surrogates

\* What json.dump(..., ensure_ascii=False) writes for one character of a string
JsonEscape(c) ==
    CASE c = "\"" -> <<"\\", "\"">>
      [] c = "\\" -> <<"\\", "\\">>
      [] c = "\n" -> <<"\\", "n">>
      [] c = "\t" -> <<"\\", "t">>
      [] OTHER -> <<c>>

RECURSIVE ConcatRange(_, _, _)
\* "".join(pieces[lo:hi+1]), by halves
ConcatRange(pieces, lo, hi) ==
    IF lo > hi THEN <<>>
    ELSE IF lo = hi THEN pieces[lo]
    ELSE LET mid == (lo + hi) \div 2
         IN  ConcatRange(pieces, lo, mid) \o ConcatRange(pieces, mid + 1, hi)

\* The JSON text of a Python str
JsonString(s) ==
    LET pieces == [i \in 1..Len(s) |-> JsonEscape(s[i])]
    IN  <<"\"">> \o ConcatRange(pieces, 1, Len(s)) \o <<"\"">>

\* The character a JSON escape stands for
JsonUnescape(c) ==
    CASE c = "n" -> "\n"
      [] c = "t" -> "\t"
      [] OTHER -> c

RECURSIVE EscapeStarts(_, _)
\* Whether the backslash that opens an escape stands at position i: a
\* backslash that is not itself the character named by an escape
EscapeStarts(text, i) ==
    /\ i >= 1
    /\ text[i] = "\\"
    /\ ~EscapeStarts(text, i - 1)

\* json.load of a JSON string: the Python str between the quotes
JsonParseString(text) ==
    LET pieces == [i \in 1..Len(text) |->
                      IF i = 1 \/ i = Len(text) \/ EscapeStarts(text, i) THEN <<>>
                      ELSE IF EscapeStarts(text, i - 1) THEN <<JsonUnescape(text[i])>>
                      ELSE <<text[i]>>]
    IN  ConcatRange(pieces, 1, Len(text))

\* memory.py:126-133, conversation_data (saved_at, the time of the call, is
\* written and never read back; it is left out like the turns' timestamps)
ConversationData(m, session_id) ==
    [session_id |-> session_id,
     messages |-> m.messages,
     total_tokens |-> m.total_tokens,
     message_count |-> Len(m.messages),
     summary |-> GetSummary(m)]

\* Whether every string of conversation_data can be written (the session ids
\* of the inputs are plain ASCII names, written and read back as they are)
EncodableData(data) ==
    /\ Encodable(data.summary)
    /\ \A i \in 1..Len(data.messages) :
          Encodable(data.messages[i].human) /\ Encodable(data.messages[i].ai)

\* No file at the path
NoFile ==
    [kind |-> "absent", session_id |-> "", messages |-> <<>>, total_tokens |-> 0,
     message_count |-> 0, summary |-> <<>>]

\* The file a write that raised leaves behind: opened with 'w', so truncated,
\* and holding at most the beginning of the JSON text
PartialFile ==
    [kind |-> "partial", session_id |-> "", messages |-> <<>>, total_tokens |-> 0,
     message_count |-> 0, summary |-> <<>>]

\* memory.py:135-136, the file json.dump writes
JsonDump(data) ==
    [kind |-> "json",
     session_id |-> data.session_id,
     messages |-> [i \in 1..Len(data.messages) |->
                      [human |-> JsonString(data.messages[i].human),
                       ai |-> JsonString(data.messages[i].ai),
                       tokens |-> data.messages[i].tokens]],
     total_tokens |-> data.total_tokens,
     message_count |-> data.message_count,
     summary |-> JsonString(data.summary)]

\* memory.py:159-160, json.load of a complete file
JsonLoad(file) ==
    [session_id |-> file.session_id,
     messages |-> [i \in 1..Len(file.messages) |->
                      [human |-> JsonParseString(file.messages[i].human),
                       ai |-> JsonParseString(file.messages[i].ai),
                       tokens |-> file.messages[i].tokens]],
     total_tokens |-> file.total_tokens,
     message_count |-> file.message_count,
     summary |-> JsonParseString(file.summary)]

\* What the file system does to a save: nothing wrong, mkdir or open raises
\* (memory.py:123, 135), or a write raises after the file was opened (136).
SaveFaults == {"ok", "open", "write"}

\* What the file system does to a load: nothing wrong, or open raises (159).
LoadFaults == {"ok", "open"}

\* ConversationMemory.save_to_file: the value returned and the directory afterwards
SaveToFile(m, session_id, dir, fault) ==
    LET conversation_data == ConversationData(m, session_id)
    IN  IF fault = "open"
        THEN [returned |-> FALSE, dir |-> dir]
        ELSE IF fault = "write" \/ ~EncodableData(conversation_data)
        THEN [returned |-> FALSE, dir |-> [dir EXCEPT ![session_id] = PartialFile]]
        ELSE [returned |-> TRUE,
              dir |-> [dir EXCEPT ![session_id] = JsonDump(conversation_data)]]

\* A slip: the turn list restored, the running total left as it was.
LoadFromFileTurnsOnly(m, session_id, dir, fault) ==
    IF dir[session_id].kind = "absent"
    THEN [returned |-> FALSE, memory |-> m]
    ELSE IF fault = "open" \/ dir[session_id].kind = "partial"
    THEN [returned |-> FALSE, memory |-> m]
    ELSE LET data == JsonLoad(dir[session_id])
         IN  [returned |-> TRUE,
              memory |-> [m EXCEPT !.messages = data.messages,
                                   !.appended = data.messages]]

\* ConversationMemory.load_from_file: the value returned and the store afterwards
\* (appended, the history of add_message, starts again at what was loaded)
LoadFromFile(m, session_id, dir, fault) ==
    IF dir[session_id].kind = "absent"
    THEN [returned |-> FALSE, memory |-> m]
    ELSE IF fault = "open" \/ dir[session_id].kind = "partial"
    THEN [returned |-> FALSE, memory |-> m]
    ELSE LET data == JsonLoad(dir[session_id])
         IN  [returned |-> TRUE,
              memory |-> [m EXCEPT !.messages = data.messages,
                                   !.total_tokens = data.total_tokens,
                                   !.appended = data.messages]]

\* memory.py:81
HUMAN_LABEL ==
    <<"H", "u", "m", "a", "n", ":", " ">>

\* memory.py:82
ASSISTANT_LABEL ==
    <<"A", "s", "s", "i", "s", "t", "a", "n", "t", ":", " ">>

\* memory.py:60, the default of max_exchanges
DEFAULT_MAX_EXCHANGES == 5

\* memory.py:78-83, the lines one turn adds to conversation_parts (without timestamps)
ConversationParts(msg) == <<HUMAN_LABEL \o msg.human, ASSISTANT_LABEL \o msg.ai, <<>>>>

\* A slip: `[:max_exchanges]` for `[-max_exchanges:]`, the oldest turns instead of the newest.
GetConversationStringOldest(m, max_exchanges) ==
    IF m.messages = <<>> THEN <<>>
    ELSE LET n == Len(m.messages)
             recent_messages ==
                 IF max_exchanges > 0
                 THEN SubSeq(m.messages, 1, IF max_exchanges < n THEN max_exchanges ELSE n)
                 ELSE m.messages
             conversation_parts ==
                 Concat([i \in 1..Len(recent_messages) |-> ConversationParts(recent_messages[i])])
         IN  Strip(Join(conversation_parts, <<"\n">>))

\* ConversationMemory.get_conversation_string(include_timestamps=False, max_exchanges)
GetConversationString(m, max_exchanges) ==
    IF m.messages = <<>> THEN <<>>
    ELSE LET n == Len(m.messages)
             recent_messages ==
                 IF max_exchanges > 0
                 THEN SubSeq(m.messages, Max({1, n - max_exchanges + 1}), n)
                 ELSE m.messages
             conversation_parts ==
                 Concat([i \in 1..Len(recent_messages) |-> ConversationParts(recent_messages[i])])
         IN  Strip(Join(conversation_parts, <<"\n">>))

-----------------------------------------------------------------------------
(* The text-completion boundary, src/core/llm/mistral_handler.py *)

\* mistral_handler.py:84, returned for an empty completion
APOLOGY_EMPTY ==
    <<"I", " ", "a", "p", "o", "l", "o", "g", "i", "z", "e", ",", " ", "b", "u",
      "t", " ", "I", " ", "c", "o", "u", "l", "d", "n", "'", "t", " ", "g", "e",
      "n", "e", "r", "a", "t", "e", " ", "a", " ", "p", "r", "o", "p", "e", "r",
      " ", "r", "e", "s", "p", "o", "n", "s", "e", ".", " ", "C", "o", "u", "l",
      "d", " ", "y", "o", "u", " ", "p", "l", "e", "a", "s", "e", " ", "r", "e",
      "p", "h", "r", "a", "s", "e", " ", "y", "o", "u", "r", " ", "q", "u", "e",
      "s", "t", "i", "o", "n", "?">>

\* mistral_handler.py:90, returned when the model call raises
APOLOGY_ERROR ==
    <<"I", " ", "a", "p", "o", "l", "o", "g", "i", "z", "e", ",", " ", "b", "u",
      "t", " ", "I", " ", "e", "n", "c", "o", "u", "n", "t", "e", "r", "e", "d",
      " ", "a", "n", " ", "e", "r", "r", "o", "r", " ", "w", "h", "i", "l", "e",
      " ", "g", "e", "n", "e", "r", "a", "t", "i", "n", "g", " ", "a", " ", "r",
      "e", "s", "p", "o", "n", "s", "e", ".", " ", "P", "l", "e", "a", "s", "e",
      " ", "t", "r", "y", " ", "a", "g", "a", "i", "n", ".">>

\* A slip: the test of line 83 left out, so that an empty text is returned as it is.
GenerateResponseUnchecked(outcome) ==
    IF outcome.kind = "raise" THEN APOLOGY_ERROR ELSE Strip(outcome.text)

\* MistralHandler.generate_response.  outcome is what self.llm(...) does: it
\* returns a completion text or raises.
GenerateResponse(outcome) ==
    IF outcome.kind = "raise" THEN APOLOGY_ERROR
    ELSE LET generated_text == Strip(outcome.text)
         IN  IF generated_text = <<>> THEN APOLOGY_EMPTY ELSE generated_text

-----------------------------------------------------------------------------
(* Response routing, src/main.py chat_endpoint lines 136-188 *)

\* main.py:138, the directive marker
MARKER ==
    <<"I", "M", "A", "G", "E", "_", "R", "E", "Q", "U", "E", "S", "T", ":">>

\* main.py:148-153, the keyword list of chat_endpoint (with its two repeated entries)
image_keywords ==
    << <<"i", "m", "a", "g", "e">>,
       <<"p", "i", "c", "t", "u", "r", "e">>,
       <<"p", "h", "o", "t", "o">>,
       <<"g", "e", "n", "e", "r", "a", "t", "e">>,
       <<"c", "r", "e", "a", "t", "e">>,
       <<"d", "r", "a", "w">>,
       <<"m", "a", "k", "e">>,
       <<"s", "h", "o", "w", " ", "m", "e">>,
       <<"p", "a", "i", "n", "t">>,
       <<"d", "e", "s", "i", "g", "n">>,
       <<"U+091B", "U+0935", "U+093F">>,
       <<"U+0924", "U+0938", "U+094D", "U+0935", "U+0940", "U+0930">>,
       <<"U+092B", "U+094B", "U+091F", "U+094B">>,
       <<"U+092C", "U+0928", "U+093E", "U+0913">>,
       <<"U+0926", "U+093F", "U+0916", "U+093E", "U+0913">>,
       <<"U+091A", "U+093F", "U+0924", "U+094D", "U+0930">>,
       <<"U+0938", "U+094D", "U+0915", "U+0947", "U+091A">>,
       <<"i", "m", "a", "g", "e", "n">>,
       <<"f", "o", "t", "o">>,
       <<"g", "e", "n", "e", "r", "a", "r">>,
       <<"c", "r", "e", "a", "r">>,
       <<"h", "a", "c", "e", "r">>,
       <<"m", "o", "s", "t", "r", "a", "r">>,
       <<"d", "i", "b", "u", "j", "a", "r">>,
       <<"p", "i", "n", "t", "a", "r">>,
       <<"d", "i", "s", "e", "U+00F1", "a", "r">>,
       <<"i", "m", "a", "g", "e">>,
       <<"p", "h", "o", "t", "o">>,
       <<"g", "U+00E9", "n", "U+00E9", "r", "e", "r">>,
       <<"c", "r", "U+00E9", "e", "r">>,
       <<"f", "a", "i", "r", "e">>,
       <<"m", "o", "n", "t", "r", "e", "r">>,
       <<"d", "e", "s", "s", "i", "n", "e", "r">>,
       <<"p", "e", "i", "n", "d", "r", "e">>,
       <<"c", "o", "n", "c", "e", "v", "o", "i", "r">> >>

\* main.py:183, the text put before str(e)
FAILURE_NOTE ==
    <<"\n", "\n", "S", "o", "r", "r", "y", ",", " ", "I", " ", "c", "o", "u",
      "l", "d", "n", "'", "t", " ", "g", "e", "n", "e", "r", "a", "t", "e", " ",
      "t", "h", "e", " ", "i", "m", "a", "g", "e", " ", "d", "u", "e", " ", "t",
      "o", " ", "a", "n", " ", "e", "r", "r", "o", "r", ":", " ">>

\* str(e) of the AttributeError raised at main.py:167 while image_generator is None
NONE_ATTRIBUTE_ERROR ==
    <<"'", "N", "o", "n", "e", "T", "y", "p", "e", "'", " ", "o", "b", "j", "e",
      "c", "t", " ", "h", "a", "s", " ", "n", "o", " ", "a", "t", "t", "r", "i",
      "b", "u", "t", "e", " ", "'", "g", "e", "n", "e", "r", "a", "t", "e", "_",
      "i", "m", "a", "g", "e", "'">>

\* str(e) of the OSError PIL raises from image.save at main.py:177
ENCODER_ERROR ==
    <<"e", "n", "c", "o", "d", "e", "r", " ", "e", "r", "r", "o", "r", " ", "-",
      "2", " ", "w", "h", "e", "n", " ", "w", "r", "i", "t", "i", "n", "g", " ",
      "i", "m", "a", "g", "e", " ", "f", "i", "l", "e">>

\* main.py:160, the longest prompt handed on unchanged
PROMPT_LIMIT == 300

\* main.py:163, the index a space must exceed for the cut to be made there
LAST_SPACE_FLOOR == 200

\* A slip: splitting at the last occurrence (rsplit) instead of the first.
SplitLast(s, sep) ==
    LET hits == {p \in 1..(Len(s) - Len(sep) + 1) :
                    \A j \in 1..Len(sep) : s[p + j - 1] = sep[j]}
    IN  IF hits = {} THEN <<s>>
        ELSE <<SubSeq(s, 1, Max(hits) - 1), SubSeq(s, Max(hits) + Len(sep), Len(s))>>

\* s.split(sep, 1)
Split1(s, sep) ==
    LET p == Find(s, sep)
    IN  IF p = 0 THEN <<s>>
        ELSE <<SubSeq(s, 1, p - 1), SubSeq(s, p + Len(sep), Len(s))>>

\* main.py:147-156, has_image_keyword
HasImageKeyword(message) ==
    LET user_message_lower == Lower(message)
    IN  \E i \in 1..Len(image_keywords) : Contains(user_message_lower, image_keywords[i])

\* A slip: `>=` for `>` in the test of last_space.
ClampAtFloor(image_prompt) ==
    IF Len(image_prompt) > PROMPT_LIMIT
    THEN LET truncated == Prefix(image_prompt, PROMPT_LIMIT)
             last_space == RFind(truncated, " ")
         IN  IF last_space >= LAST_SPACE_FLOOR THEN Prefix(truncated, last_space)
             ELSE Prefix(truncated, PROMPT_LIMIT)
    ELSE image_prompt

\* main.py:160-163, the clamping of image_prompt
Clamp(image_prompt) ==
    IF Len(image_prompt) > PROMPT_LIMIT
    THEN LET truncated == Prefix(image_prompt, PROMPT_LIMIT)
             last_space == RFind(truncated, " ")
         IN  IF last_space > LAST_SPACE_FLOOR THEN Prefix(truncated, last_space)
             ELSE Prefix(truncated, PROMPT_LIMIT)
    ELSE image_prompt

\* main.py:138, the test for the marker
HasMarker(response) == Contains(response, MARKER)

\* A slip: "prompt non-empty" as the only gate, without the keyword test.
PromptOnlyGate(has_image_keyword, image_prompt) == image_prompt # <<>>

\* main.py:158, the gate of image synthesis
ShouldSynthesize(has_image_keyword, image_prompt) ==
    has_image_keyword /\ image_prompt # <<>>

\* A slip: the marker is stripped from the reply only when the directive is valid.
VisibleTextWhenValid(response, text_response, valid) ==
    IF valid THEN text_response ELSE response

\* main.py:144, response = text_response, whatever the validation says
VisibleText(response, text_response, valid) == text_response

\* main.py:136-163 when the marker is present
RouteDirective(response, message) ==
    LET parts == Split1(response, MARKER)
        text_response == Strip(parts[1])
        image_prompt == IF Len(parts) > 1 THEN Strip(parts[2]) ELSE <<>>
        has_image_keyword == HasImageKeyword(message)
        valid == ShouldSynthesize(has_image_keyword, image_prompt)
    IN  [marker |-> TRUE, synthesize |-> valid,
         text_response |-> VisibleText(response, text_response, valid),
         extracted |-> image_prompt,
         image_prompt |-> IF valid THEN Clamp(image_prompt) ELSE image_prompt]

\* A slip: without a marker, a keyword in the user's message alone starts a
\* synthesis, with the message as the prompt.
RouteKeywordFallback(response, message) ==
    IF HasMarker(response) THEN RouteDirective(response, message)
    ELSE [marker |-> FALSE, synthesize |-> HasImageKeyword(message),
          text_response |-> response, extracted |-> message, image_prompt |-> message]

\* main.py:136-163: the split of the model's reply and the decision to
\* synthesize.  response is what generate_response returned, message is
\* request.message.  text_response is the response after line 144, extracted
\* the image_prompt of line 141, image_prompt the one that reaches line 165
\* (both unbound, here <<>>, when there is no marker).
Route(response, message) ==
    IF HasMarker(response) THEN RouteDirective(response, message)
    ELSE [marker |-> FALSE, synthesize |-> FALSE, text_response |-> response,
          extracted |-> <<>>, image_prompt |-> <<>>]

\* base64 of the PNG encoding of an image, main.py:176-178
EncodeImage(image) ==
    IF image = "generated" THEN "b64png(generated)" ELSE "b64png(lightgray)"

\* config.py:20, the default of SD_WIDTH
DEFAULT_SD_WIDTH == 512

\* config.py:21, the default of SD_HEIGHT
DEFAULT_SD_HEIGHT == 512

\* stable_diffusion.py:111-122, what self.pipe(...) does: it returns an image or raises
PipelineOutcomes == {"image", "raise"}

\* A slip: no except branch, so that the pipeline's exception leaves generate_image.
GenerateImageRaises(pipe, width, height) ==
    IF pipe = "raise"
    THEN [kind |-> "raise", image |-> "none",
          error |-> <<"o", "u", "t", " ", "o", "f", " ", "m", "e", "m", "o", "r", "y">>,
          pipe |-> pipe, width |-> 0, height |-> 0]
    ELSE [kind |-> "image", image |-> "generated", error |-> <<>>, pipe |-> pipe,
          width |-> width, height |-> height]

\* ImageGenerator.generate_image: the pipeline's image, or the lightgray
\* placeholder of the same size when the pipeline raised (stable_diffusion.py:132-136).
GenerateImage(pipe, width, height) ==
    IF pipe = "raise"
    THEN [kind |-> "image", image |-> "lightgray", error |-> <<>>, pipe |-> pipe,
          width |-> width, height |-> height]
    ELSE [kind |-> "image", image |-> "generated", error |-> <<>>, pipe |-> pipe,
          width |-> width, height |-> height]

\* What happens at lines 167-178 once generate_image is called: what the
\* pipeline does inside it, and whether encoding the returned image as PNG
\* (line 177) raises.
ImageOutcomes ==
    {[pipe |-> "image", save |-> "ok"],
     [pipe |-> "raise", save |-> "ok"],
     [pipe |-> "image", save |-> "raise"]}

\* main.py:167-178: the image generate_image returned, or the exception that
\* reaches line 181.
ImageCall(outcome, width, height) ==
    IF outcome.save = "raise"
    THEN [kind |-> "raise", image |-> "none", error |-> ENCODER_ERROR,
          pipe |-> outcome.pipe, width |-> 0, height |-> 0]
    ELSE GenerateImage(outcome.pipe, width, height)

\* image_generator.generate_image while image_generator is None (main.py:167)
NoGenerator ==
    [kind |-> "raise", image |-> "none", error |-> NONE_ATTRIBUTE_ERROR, pipe |-> "none",
     width |-> 0, height |-> 0]

\* main.py:165-183: what the try block leaves in response and image_data.
ImageStep(text_response, outcome) ==
    IF outcome.kind = "raise"
    THEN [response |-> text_response \o FAILURE_NOTE \o outcome.error,
          image_data |-> "None"]
    ELSE [response |-> text_response, image_data |-> EncodeImage(outcome.image)]

-----------------------------------------------------------------------------
(* LanguageHandler, src/core/utils/language_handler.py *)

\* language_handler.py:17-22, the keys of self.supported_languages
supported_languages == {"en", "hi", "es", "fr"}

\* language_handler.py:26-42, self.system_prompts['en']
SYSTEM_PROMPT_EN ==
    <<"Y", "o", "u", " ", "a", "r", "e", " ", "a", " ", "h", "e", "l", "p", "f",
      "u", "l", " ", "A", "I", " ", "a", "s", "s", "i", "s", "t", "a", "n", "t",
      ".", " ", "R", "e", "s", "p", "o", "n", "d", " ", "n", "a", "t", "u", "r",
      "a", "l", "l", "y", " ", "i", "n", " ", "E", "n", "g", "l", "i", "s", "h",
      ".", "\n", "\n", " ", " ", " ", " ", " ", " ", " ", " ", "C", "R", "I",
      "T", "I", "C", "A", "L", " ", "R", "U", "L", "E", ":", " ", "N", "E", "V",
      "E", "R", " ", "i", "n", "c", "l", "u", "d", "e", " ", "'", "I", "M", "A",
      "G", "E", "_", "R", "E", "Q", "U", "E", "S", "T", ":", "'", " ", "i", "n",
      " ", "y", "o", "u", "r", " ", "r", "e", "s", "p", "o", "n", "s", "e", " ",
      "u", "n", "l", "e", "s", "s", " ", "t", "h", "e", " ", "u", "s", "e", "r",
      " ", "u", "s", "e", "s", " ", "e", "x", "p", "l", "i", "c", "i", "t", " ",
      "i", "m", "a", "g", "e", " ", "c", "r", "e", "a", "t", "i", "o", "n", " ",
      "w", "o", "r", "d", "s", " ", "l", "i", "k", "e", " ", "'", "c", "r", "e",
      "a", "t", "e", " ", "i", "m", "a", "g", "e", "'", ",", " ", "'", "g", "e",
      "n", "e", "r", "a", "t", "e", " ", "p", "i", "c", "t", "u", "r", "e", "'",
      ",", " ", "'", "d", "r", "a", "w", "'", ",", " ", "'", "m", "a", "k", "e",
      " ", "i", "m", "a", "g", "e", "'", ",", " ", "o", "r", " ", "'", "s", "h",
      "o", "w", " ", "m", "e", " ", "i", "m", "a", "g", "e", "'", ".", "\n",
      "\n", " ", " ", " ", " ", " ", " ", " ", " ", "F", "o", "r", " ", "n", "o",
      "r", "m", "a", "l", " ", "c", "o", "n", "v", "e", "r", "s", "a", "t", "i",
      "o", "n", "s", ",", " ", "g", "r", "e", "e", "t", "i", "n", "g", "s", ",",
      " ", "q", "u", "e", "s", "t", "i", "o", "n", "s", ",", " ", "o", "r", " ",
      "g", "e", "n", "e", "r", "a", "l", " ", "c", "h", "a", "t", " ", "-", " ",
      "r", "e", "s", "p", "o", "n", "d", " ", "n", "o", "r", "m", "a", "l", "l",
      "y", " ", "W", "I", "T", "H", "O", "U", "T", " ", "a", "n", "y", " ", "I",
      "M", "A", "G", "E", "_", "R", "E", "Q", "U", "E", "S", "T", ".", "\n",
      "\n", " ", " ", " ", " ", " ", " ", " ", " ", "O", "N", "L", "Y", " ", "i",
      "f", " ", "u", "s", "e", "r", " ", "e", "x", "p", "l", "i", "c", "i", "t",
      "l", "y", " ", "s", "a", "y", "s", " ", "s", "o", "m", "e", "t", "h", "i",
      "n", "g", " ", "l", "i", "k", "e", ":", "\n", " ", " ", " ", " ", " ", " ",
      " ", " ", "-", " ", "\"", "C", "r", "e", "a", "t", "e", " ", "a", "n", " ",
      "i", "m", "a", "g", "e", " ", "o", "f", ".", ".", ".", "\"", "\n", " ",
      " ", " ", " ", " ", " ", " ", " ", "-", " ", "\"", "G", "e", "n", "e", "r",
      "a", "t", "e", " ", "a", " ", "p", "i", "c", "t", "u", "r", "e", " ", "o",
      "f", ".", ".", ".", "\"", " ", " ", "\n", " ", " ", " ", " ", " ", " ",
      " ", " ", "-", " ", "\"", "D", "r", "a", "w", " ", "m", "e", ".", ".", ".",
      "\"", "\n", " ", " ", " ", " ", " ", " ", " ", " ", "-", " ", "\"", "M",
      "a", "k", "e", " ", "a", "n", " ", "i", "m", "a", "g", "e", " ", "o", "f",
      ".", ".", ".", "\"", "\n", "\n", " ", " ", " ", " ", " ", " ", " ", " ",
      "T", "h", "e", "n", " ", "r", "e", "s", "p", "o", "n", "d", ":", " ", "\"",
      "I", "'", "l", "l", " ", "c", "r", "e", "a", "t", "e", " ", "t", "h", "a",
      "t", " ", "i", "m", "a", "g", "e", " ", "f", "o", "r", " ", "y", "o", "u",
      ".", " ", "I", "M", "A", "G", "E", "_", "R", "E", "Q", "U", "E", "S", "T",
      ":", " ", "[", "d", "e", "t", "a", "i", "l", "e", "d", " ", "d", "e", "s",
      "c", "r", "i", "p", "t", "i", "o", "n", "]", "\"", "\n", "\n", " ", " ",
      " ", " ", " ", " ", " ", " ", "F", "o", "r", " ", "e", "v", "e", "r", "y",
      "t", "h", "i", "n", "g", " ", "e", "l", "s", "e", ",", " ", "j", "u", "s",
      "t", " ", "h", "a", "v", "e", " ", "a", " ", "n", "o", "r", "m", "a", "l",
      " ", "c", "o", "n", "v", "e", "r", "s", "a", "t", "i", "o", "n", ".", " ",
      "D", "o", " ", "N", "O", "T", " ", "a", "d", "d", " ", "I", "M", "A", "G",
      "E", "_", "R", "E", "Q", "U", "E", "S", "T", " ", "t", "o", " ", "r", "e",
      "g", "u", "l", "a", "r", " ", "r", "e", "s", "p", "o", "n", "s", "e", "s",
      ".", "\n", "\n", " ", " ", " ", " ", " ", " ", " ", " ", "A", "l", "w",
      "a", "y", "s", " ", "r", "e", "s", "p", "o", "n", "d", " ", "i", "n", " ",
      "E", "n", "g", "l", "i", "s", "h", " ", "a", "n", "d", " ", "b", "e", " ",
      "h", "e", "l", "p", "f", "u", "l", " ", "a", "n", "d", " ", "i", "n", "f",
      "o", "r", "m", "a", "t", "i", "v", "e", ".">>

\* language_handler.py:44-57, self.system_prompts['hi']
SYSTEM_PROMPT_HI ==
    <<"U+0906", "U+092A", " ", "U+090F", "U+0915", " ", "U+0938", "U+0939",
      "U+093E", "U+092F", "U+0915", " ", "A", "I", " ", "U+0905", "U+0938",
      "U+093F", "U+0938", "U+094D", "U+091F", "U+0947", "U+0902", "U+091F", " ",
      "U+0939", "U+0948", "U+0902", "U+0964", " ", "U+0939", "U+093F", "U+0902",
      "U+0926", "U+0940", " ", "U+092E", "U+0947", "U+0902", " ", "U+0938",
      "U+094D", "U+0935", "U+093E", "U+092D", "U+093E", "U+0935", "U+093F",
      "U+0915", " ", "U+0930", "U+0942", "U+092A", " ", "U+0938", "U+0947", " ",
      "U+091C", "U+0935", "U+093E", "U+092C", " ", "U+0926", "U+0947", "U+0902",
      "U+0964", "\n", "\n", " ", " ", " ", " ", " ", " ", " ", " ", "U+092E",
      "U+0939", "U+0924", "U+094D", "U+0935", "U+092A", "U+0942", "U+0930",
      "U+094D", "U+0923", " ", "U+0928", "U+093F", "U+092F", "U+092E", ":", " ",
      "U+091C", "U+092C", " ", "U+0924", "U+0915", " ", "U+0909", "U+092A",
      "U+092F", "U+094B", "U+0917", "U+0915", "U+0930", "U+094D", "U+0924",
      "U+093E", " ", "U+0938", "U+094D", "U+092A", "U+0937", "U+094D", "U+091F",
      " ", "U+0930", "U+0942", "U+092A", " ", "U+0938", "U+0947", " ", "'",
      "U+091B", "U+0935", "U+093F", " ", "U+092C", "U+0928", "U+093E", "U+090F",
      "U+0902", "'", ",", " ", "'", "U+0924", "U+0938", "U+094D", "U+0935",
      "U+0940", "U+0930", " ", "U+092C", "U+0928", "U+093E", "U+0913", "'", ",",
      " ", "'", "U+091A", "U+093F", "U+0924", "U+094D", "U+0930", " ", "U+0926",
      "U+093F", "U+0916", "U+093E", "U+090F", "U+0902", "'", " ", "U+091C",
      "U+0948", "U+0938", "U+0947", " ", "U+0936", "U+092C", "U+094D", "U+0926",
      " ", "U+0928", " ", "U+0915", "U+0939", "U+0947", ",", " ", "U+0924",
      "U+092C", " ", "U+0924", "U+0915", " ", "U+0915", "U+092D", "U+0940", " ",
      "U+092D", "U+0940", " ", "'", "I", "M", "A", "G", "E", "_", "R", "E", "Q",
      "U", "E", "S", "T", ":", "'", " ", "U+0915", "U+093E", " ", "U+0909",
      "U+092A", "U+092F", "U+094B", "U+0917", " ", "U+0928", " ", "U+0915",
      "U+0930", "U+0947", "U+0902", "U+0964", "\n", "\n", " ", " ", " ", " ",
      " ", " ", " ", " ", "U+0938", "U+093E", "U+092E", "U+093E", "U+0928",
      "U+094D", "U+092F", " ", "U+092C", "U+093E", "U+0924", "U+091A", "U+0940",
      "U+0924", ",", " ", "U+0905", "U+092D", "U+093F", "U+0935", "U+093E",
      "U+0926", "U+0928", ",", " ", "U+092A", "U+094D", "U+0930", "U+0936",
      "U+094D", "U+0928", " ", "U+0915", "U+0947", " ", "U+0932", "U+093F",
      "U+090F", " ", "-", " ", "U+0938", "U+093E", "U+092E", "U+093E", "U+0928",
      "U+094D", "U+092F", " ", "U+091C", "U+0935", "U+093E", "U+092C", " ",
      "U+0926", "U+0947", "U+0902", " ", "I", "M", "A", "G", "E", "_", "R", "E",
      "Q", "U", "E", "S", "T", " ", "U+0915", "U+0947", " ", "U+092C", "U+093F",
      "U+0928", "U+093E", "U+0964", "\n", "\n", " ", " ", " ", " ", " ", " ",
      " ", " ", "U+0915", "U+0947", "U+0935", "U+0932", " ", "U+0924", "U+092D",
      "U+0940", " ", "I", "M", "A", "G", "E", "_", "R", "E", "Q", "U", "E", "S",
      "T", " ", "U+0915", "U+093E", " ", "U+0909", "U+092A", "U+092F", "U+094B",
      "U+0917", " ", "U+0915", "U+0930", "U+0947", "U+0902", " ", "U+091C",
      "U+092C", " ", "U+0909", "U+092A", "U+092F", "U+094B", "U+0917", "U+0915",
      "U+0930", "U+094D", "U+0924", "U+093E", " ", "U+0938", "U+094D", "U+092A",
      "U+0937", "U+094D", "U+091F", " ", "U+0930", "U+0942", "U+092A", " ",
      "U+0938", "U+0947", " ", "U+0915", "U+0939", "U+0947", ":", "\n", " ", " ",
      " ", " ", " ", " ", " ", " ", "-", " ", "\"", "U+090F", "U+0915", " ",
      "U+091B", "U+0935", "U+093F", " ", "U+092C", "U+0928", "U+093E", "U+090F",
      "U+0902", ".", ".", ".", "\"", "\n", " ", " ", " ", " ", " ", " ", " ",
      " ", "-", " ", "\"", "U+0924", "U+0938", "U+094D", "U+0935", "U+0940",
      "U+0930", " ", "U+092C", "U+0928", "U+093E", "U+0913", ".", ".", ".", "\"",
      " ", " ", "\n", " ", " ", " ", " ", " ", " ", " ", " ", "-", " ", "\"",
      "U+091A", "U+093F", "U+0924", "U+094D", "U+0930", " ", "U+0926", "U+093F",
      "U+0916", "U+093E", "U+090F", "U+0902", ".", ".", ".", "\"", "\n", "\n",
      " ", " ", " ", " ", " ", " ", " ", " ", "U+0905", "U+0928", "U+094D",
      "U+092F", "U+0925", "U+093E", " ", "U+0938", "U+093E", "U+092E", "U+093E",
      "U+0928", "U+094D", "U+092F", " ", "U+092C", "U+093E", "U+0924", "U+091A",
      "U+0940", "U+0924", " ", "U+0915", "U+0930", "U+0947", "U+0902", "U+0964",
      " ", "U+0928", "U+093F", "U+092F", "U+092E", "U+093F", "U+0924", " ",
      "U+0909", "U+0924", "U+094D", "U+0924", "U+0930", "U+094B", "U+0902", " ",
      "U+092E", "U+0947", "U+0902", " ", "I", "M", "A", "G", "E", "_", "R", "E",
      "Q", "U", "E", "S", "T", " ", "U+0928", " ", "U+091C", "U+094B", "U+0921",
      "U+093C", "U+0947", "U+0902", "U+0964", "\n", "\n", " ", " ", " ", " ",
      " ", " ", " ", " ", "U+0939", "U+092E", "U+0947", "U+0936", "U+093E", " ",
      "U+0939", "U+093F", "U+0902", "U+0926", "U+0940", " ", "U+092E", "U+0947",
      "U+0902", " ", "U+091C", "U+0935", "U+093E", "U+092C", " ", "U+0926",
      "U+0947", "U+0902", "U+0964">>

\* language_handler.py:59-75, self.system_prompts['es']
SYSTEM_PROMPT_ES ==
    <<"E", "r", "e", "s", " ", "u", "n", " ", "a", "s", "i", "s", "t", "e", "n",
      "t", "e", " ", "d", "e", " ", "I", "A", " ", "U+00FA", "t", "i", "l", ".",
      " ", "R", "e", "s", "p", "o", "n", "d", "e", " ", "n", "a", "t", "u", "r",
      "a", "l", "m", "e", "n", "t", "e", " ", "e", "n", " ", "e", "s", "p", "a",
      "U+00F1", "o", "l", ".", "\n", "\n", " ", " ", " ", " ", " ", " ", " ",
      " ", "R", "E", "G", "L", "A", " ", "C", "R", "U+00CD", "T", "I", "C", "A",
      ":", " ", "N", "U", "N", "C", "A", " ", "i", "n", "c", "l", "u", "y", "a",
      "s", " ", "'", "I", "M", "A", "G", "E", "_", "R", "E", "Q", "U", "E", "S",
      "T", ":", "'", " ", "e", "n", " ", "t", "u", " ", "r", "e", "s", "p", "u",
      "e", "s", "t", "a", " ", "a", " ", "m", "e", "n", "o", "s", " ", "q", "u",
      "e", " ", "e", "l", " ", "u", "s", "u", "a", "r", "i", "o", " ", "u", "s",
      "e", " ", "p", "a", "l", "a", "b", "r", "a", "s", " ", "e", "x", "p", "l",
      "U+00ED", "c", "i", "t", "a", "s", " ", "d", "e", " ", "c", "r", "e", "a",
      "c", "i", "U+00F3", "n", " ", "d", "e", " ", "i", "m", "U+00E1", "g", "e",
      "n", "e", "s", " ", "c", "o", "m", "o", " ", "'", "c", "r", "e", "a", "r",
      " ", "i", "m", "a", "g", "e", "n", "'", ",", " ", "'", "g", "e", "n", "e",
      "r", "a", "r", " ", "f", "o", "t", "o", "'", ",", " ", "'", "d", "i", "b",
      "u", "j", "a", "r", "'", ",", " ", "'", "h", "a", "c", "e", "r", " ", "i",
      "m", "a", "g", "e", "n", "'", ".", "\n", "\n", " ", " ", " ", " ", " ",
      " ", " ", " ", "P", "a", "r", "a", " ", "c", "o", "n", "v", "e", "r", "s",
      "a", "c", "i", "o", "n", "e", "s", " ", "n", "o", "r", "m", "a", "l", "e",
      "s", ",", " ", "s", "a", "l", "u", "d", "o", "s", ",", " ", "p", "r", "e",
      "g", "u", "n", "t", "a", "s", " ", "-", " ", "r", "e", "s", "p", "o", "n",
      "d", "e", " ", "n", "o", "r", "m", "a", "l", "m", "e", "n", "t", "e", " ",
      "S", "I", "N", " ", "n", "i", "n", "g", "U+00FA", "n", " ", "I", "M", "A",
      "G", "E", "_", "R", "E", "Q", "U", "E", "S", "T", ".", "\n", "\n", " ",
      " ", " ", " ", " ", " ", " ", " ", "S", "O", "L", "O", " ", "s", "i", " ",
      "e", "l", " ", "u", "s", "u", "a", "r", "i", "o", " ", "d", "i", "c", "e",
      " ", "e", "x", "p", "l", "U+00ED", "c", "i", "t", "a", "m", "e", "n", "t",
      "e", ":", "\n", " ", " ", " ", " ", " ", " ", " ", " ", "-", " ", "\"",
      "C", "r", "e", "a", " ", "u", "n", "a", " ", "i", "m", "a", "g", "e", "n",
      " ", "d", "e", ".", ".", ".", "\"", "\n", " ", " ", " ", " ", " ", " ",
      " ", " ", "-", " ", "\"", "G", "e", "n", "e", "r", "a", " ", "u", "n", "a",
      " ", "f", "o", "t", "o", " ", "d", "e", ".", ".", ".", "\"", "\n", " ",
      " ", " ", " ", " ", " ", " ", " ", "-", " ", "\"", "D", "i", "b", "u", "j",
      "a", ".", ".", ".", "\"", "\n", " ", " ", " ", " ", " ", " ", " ", " ",
      "-", " ", "\"", "H", "a", "z", " ", "u", "n", "a", " ", "i", "m", "a", "g",
      "e", "n", " ", "d", "e", ".", ".", ".", "\"", "\n", "\n", " ", " ", " ",
      " ", " ", " ", " ", " ", "E", "n", "t", "o", "n", "c", "e", "s", " ", "r",
      "e", "s", "p", "o", "n", "d", "e", ":", " ", "\"", "C", "r", "e", "a", "r",
      "U+00E9", " ", "e", "s", "a", " ", "i", "m", "a", "g", "e", "n", " ", "p",
      "a", "r", "a", " ", "t", "i", ".", " ", "I", "M", "A", "G", "E", "_", "R",
      "E", "Q", "U", "E", "S", "T", ":", " ", "[", "d", "e", "s", "c", "r", "i",
      "p", "c", "i", "U+00F3", "n", " ", "d", "e", "t", "a", "l", "l", "a", "d",
      "a", "]", "\"", "\n", "\n", " ", " ", " ", " ", " ", " ", " ", " ", "P",
      "a", "r", "a", " ", "t", "o", "d", "o", " ", "l", "o", " ", "d", "e", "m",
      "U+00E1", "s", ",", " ", "t", "e", "n", " ", "u", "n", "a", " ", "c", "o",
      "n", "v", "e", "r", "s", "a", "c", "i", "U+00F3", "n", " ", "n", "o", "r",
      "m", "a", "l", ".", " ", "N", "O", " ", "a", "g", "r", "e", "g", "u", "e",
      "s", " ", "I", "M", "A", "G", "E", "_", "R", "E", "Q", "U", "E", "S", "T",
      " ", "a", " ", "r", "e", "s", "p", "u", "e", "s", "t", "a", "s", " ", "r",
      "e", "g", "u", "l", "a", "r", "e", "s", ".", "\n", "\n", " ", " ", " ",
      " ", " ", " ", " ", " ", "S", "i", "e", "m", "p", "r", "e", " ", "r", "e",
      "s", "p", "o", "n", "d", "e", " ", "e", "n", " ", "e", "s", "p", "a",
      "U+00F1", "o", "l", ".">>

\* language_handler.py:77-93, self.system_prompts['fr']
SYSTEM_PROMPT_FR ==
    <<"V", "o", "u", "s", " ", "U+00EA", "t", "e", "s", " ", "u", "n", " ", "a",
      "s", "s", "i", "s", "t", "a", "n", "t", " ", "I", "A", " ", "u", "t", "i",
      "l", "e", ".", " ", "R", "U+00E9", "p", "o", "n", "d", "e", "z", " ", "n",
      "a", "t", "u", "r", "e", "l", "l", "e", "m", "e", "n", "t", " ", "e", "n",
      " ", "f", "r", "a", "n", "U+00E7", "a", "i", "s", ".", "\n", "\n", " ",
      " ", " ", " ", " ", " ", " ", " ", "R", "U+00C8", "G", "L", "E", " ", "C",
      "R", "I", "T", "I", "Q", "U", "E", ":", " ", "N", "'", "i", "n", "c", "l",
      "u", "e", "z", " ", "J", "A", "M", "A", "I", "S", " ", "'", "I", "M", "A",
      "G", "E", "_", "R", "E", "Q", "U", "E", "S", "T", ":", "'", " ", "d", "a",
      "n", "s", " ", "v", "o", "t", "r", "e", " ", "r", "U+00E9", "p", "o", "n",
      "s", "e", " ", "s", "a", "u", "f", " ", "s", "i", " ", "l", "'", "u", "t",
      "i", "l", "i", "s", "a", "t", "e", "u", "r", " ", "u", "t", "i", "l", "i",
      "s", "e", " ", "d", "e", "s", " ", "m", "o", "t", "s", " ", "e", "x", "p",
      "l", "i", "c", "i", "t", "e", "s", " ", "d", "e", " ", "c", "r", "U+00E9",
      "a", "t", "i", "o", "n", " ", "d", "'", "i", "m", "a", "g", "e", "s", " ",
      "c", "o", "m", "m", "e", " ", "'", "c", "r", "U+00E9", "e", "r", " ", "i",
      "m", "a", "g", "e", "'", ",", " ", "'", "g", "U+00E9", "n", "U+00E9", "r",
      "e", "r", " ", "p", "h", "o", "t", "o", "'", ",", " ", "'", "d", "e", "s",
      "s", "i", "n", "e", "r", "'", ",", " ", "'", "f", "a", "i", "r", "e", " ",
      "i", "m", "a", "g", "e", "'", ".", "\n", "\n", " ", " ", " ", " ", " ",
      " ", " ", " ", "P", "o", "u", "r", " ", "l", "e", "s", " ", "c", "o", "n",
      "v", "e", "r", "s", "a", "t", "i", "o", "n", "s", " ", "n", "o", "r", "m",
      "a", "l", "e", "s", ",", " ", "s", "a", "l", "u", "t", "a", "t", "i", "o",
      "n", "s", ",", " ", "q", "u", "e", "s", "t", "i", "o", "n", "s", " ", "-",
      " ", "r", "U+00E9", "p", "o", "n", "d", "e", "z", " ", "n", "o", "r", "m",
      "a", "l", "e", "m", "e", "n", "t", " ", "S", "A", "N", "S", " ", "a", "u",
      "c", "u", "n", " ", "I", "M", "A", "G", "E", "_", "R", "E", "Q", "U", "E",
      "S", "T", ".", "\n", "\n", " ", " ", " ", " ", " ", " ", " ", " ", "S",
      "E", "U", "L", "E", "M", "E", "N", "T", " ", "s", "i", " ", "l", "'", "u",
      "t", "i", "l", "i", "s", "a", "t", "e", "u", "r", " ", "d", "i", "t", " ",
      "e", "x", "p", "l", "i", "c", "i", "t", "e", "m", "e", "n", "t", ":", "\n",
      " ", " ", " ", " ", " ", " ", " ", " ", "-", " ", "\"", "C", "r", "U+00E9",
      "e", " ", "u", "n", "e", " ", "i", "m", "a", "g", "e", " ", "d", "e", ".",
      ".", ".", "\"", "\n", " ", " ", " ", " ", " ", " ", " ", " ", "-", " ",
      "\"", "G", "U+00E9", "n", "U+00E8", "r", "e", " ", "u", "n", "e", " ", "p",
      "h", "o", "t", "o", " ", "d", "e", ".", ".", ".", "\"", "\n", " ", " ",
      " ", " ", " ", " ", " ", " ", "-", " ", "\"", "D", "e", "s", "s", "i", "n",
      "e", ".", ".", ".", "\"", "\n", " ", " ", " ", " ", " ", " ", " ", " ",
      "-", " ", "\"", "F", "a", "i", "s", " ", "u", "n", "e", " ", "i", "m", "a",
      "g", "e", " ", "d", "e", ".", ".", ".", "\"", "\n", "\n", " ", " ", " ",
      " ", " ", " ", " ", " ", "A", "l", "o", "r", "s", " ", "r", "U+00E9", "p",
      "o", "n", "d", "e", "z", ":", " ", "\"", "J", "e", " ", "v", "a", "i", "s",
      " ", "c", "r", "U+00E9", "e", "r", " ", "c", "e", "t", "t", "e", " ", "i",
      "m", "a", "g", "e", " ", "p", "o", "u", "r", " ", "v", "o", "u", "s", ".",
      " ", "I", "M", "A", "G", "E", "_", "R", "E", "Q", "U", "E", "S", "T", ":",
      " ", "[", "d", "e", "s", "c", "r", "i", "p", "t", "i", "o", "n", " ", "d",
      "U+00E9", "t", "a", "i", "l", "l", "U+00E9", "e", "]", "\"", "\n", "\n",
      " ", " ", " ", " ", " ", " ", " ", " ", "P", "o", "u", "r", " ", "t", "o",
      "u", "t", " ", "l", "e", " ", "r", "e", "s", "t", "e", ",", " ", "a", "y",
      "e", "z", " ", "u", "n", "e", " ", "c", "o", "n", "v", "e", "r", "s", "a",
      "t", "i", "o", "n", " ", "n", "o", "r", "m", "a", "l", "e", ".", " ", "N",
      "'", "a", "j", "o", "u", "t", "e", "z", " ", "P", "A", "S", " ", "I", "M",
      "A", "G", "E", "_", "R", "E", "Q", "U", "E", "S", "T", " ", "a", "u", "x",
      " ", "r", "U+00E9", "p", "o", "n", "s", "e", "s", " ", "r", "U+00E9", "g",
      "u", "l", "i", "U+00E8", "r", "e", "s", ".", "\n", "\n", " ", " ", " ",
      " ", " ", " ", " ", " ", "R", "U+00E9", "p", "o", "n", "d", "e", "z", " ",
      "t", "o", "u", "j", "o", "u", "r", "s", " ", "e", "n", " ", "f", "r", "a",
      "n", "U+00E7", "a", "i", "s", ".">>

\* language_handler.py:25-94, self.system_prompts
system_prompts ==
    [lang \in supported_languages |->
        CASE lang = "en" -> SYSTEM_PROMPT_EN [] lang = "hi" -> SYSTEM_PROMPT_HI
          [] lang = "es" -> SYSTEM_PROMPT_ES [] lang = "fr" -> SYSTEM_PROMPT_FR]

\* language_handler.py:98, self.image_keywords['en']
KEYWORDS_EN ==
    <<<<"i", "m", "a", "g", "e">>,
      <<"p", "i", "c", "t", "u", "r", "e">>,
      <<"p", "h", "o", "t", "o">>,
      <<"g", "e", "n", "e", "r", "a", "t", "e">>,
      <<"c", "r", "e", "a", "t", "e">>,
      <<"d", "r", "a", "w">>,
      <<"m", "a", "k", "e">>,
      <<"s", "h", "o", "w", " ", "m", "e">>,
      <<"p", "a", "i", "n", "t">>,
      <<"d", "e", "s", "i", "g", "n">> >>

\* language_handler.py:99, self.image_keywords['hi']
KEYWORDS_HI ==
    <<<<"U+091B", "U+0935", "U+093F">>,
      <<"U+0924", "U+0938", "U+094D", "U+0935", "U+0940", "U+0930">>,
      <<"U+092B", "U+094B", "U+091F", "U+094B">>,
      <<"U+092C", "U+0928", "U+093E", "U+0913">>,
      <<"U+0926", "U+093F", "U+0916", "U+093E", "U+0913">>,
      <<"U+0924", "U+0948", "U+092F", "U+093E", "U+0930", " ", "U+0915", "U+0930", "U+094B">>,
      <<"U+091A", "U+093F", "U+0924", "U+094D", "U+0930">>,
      <<"U+0938", "U+094D", "U+0915", "U+0947", "U+091A">> >>

\* language_handler.py:100, self.image_keywords['es']
KEYWORDS_ES ==
    <<<<"i", "m", "a", "g", "e", "n">>,
      <<"f", "o", "t", "o">>,
      <<"g", "e", "n", "e", "r", "a", "r">>,
      <<"c", "r", "e", "a", "r">>,
      <<"h", "a", "c", "e", "r">>,
      <<"m", "o", "s", "t", "r", "a", "r">>,
      <<"d", "i", "b", "u", "j", "a", "r">>,
      <<"p", "i", "n", "t", "a", "r">>,
      <<"d", "i", "s", "e", "U+00F1", "a", "r">> >>

\* language_handler.py:101, self.image_keywords['fr']
KEYWORDS_FR ==
    <<<<"i", "m", "a", "g", "e">>,
      <<"p", "h", "o", "t", "o">>,
      <<"g", "U+00E9", "n", "U+00E9", "r", "e", "r">>,
      <<"c", "r", "U+00E9", "e", "r">>,
      <<"f", "a", "i", "r", "e">>,
      <<"m", "o", "n", "t", "r", "e", "r">>,
      <<"d", "e", "s", "s", "i", "n", "e", "r">>,
      <<"p", "e", "i", "n", "d", "r", "e">>,
      <<"c", "o", "n", "c", "e", "v", "o", "i", "r">> >>

\* language_handler.py:97-102, self.image_keywords
self_image_keywords ==
    [lang \in supported_languages |->
        CASE lang = "en" -> KEYWORDS_EN [] lang = "hi" -> KEYWORDS_HI
          [] lang = "es" -> KEYWORDS_ES [] lang = "fr" -> KEYWORDS_FR]

\* language_handler.py:129-135, language_mapping
language_mapping ==
    [detected \in {"ca", "pt", "it", "de", "nl"} |->
        CASE detected = "ca" -> "es" [] detected = "pt" -> "es" [] detected = "it" -> "fr"
          [] detected = "de" -> "en" [] detected = "nl" -> "en"]

\* language_handler.py:118, the least length of cleaned_text given to detect()
MIN_CLEANED_LENGTH == 3

\* The characters of the inputs that the pattern \w matches: the ASCII
\* letters, the digits, the underscore, and the letters beyond ASCII.  (The
\* Devanagari vowel signs and the virama are marks, which \w does not match.)
WordCharacters ==
    {"a", "b", "c", "d", "e", "f", "g", "h", "i", "j", "k", "l", "m", "n", "o", "p", "q",
     "r", "s", "t", "u", "v", "w", "x", "y", "z",
     "A", "B", "C", "D", "E", "F", "G", "H", "I", "J", "K", "L", "M", "N", "O", "P", "Q",
     "R", "S", "T", "U", "V", "W", "X", "Y", "Z",
     "0", "1", "2", "3", "4", "5", "6", "7", "8", "9", "_",
     "U+00C8", "U+00C9", "U+00CD", "U+00E1", "U+00E7", "U+00E8", "U+00E9", "U+00EA",
     "U+00ED", "U+00F1", "U+00F3", "U+00FA", "U+0905", "U+0906", "U+0909", "U+090F",
     "U+0913", "U+0915", "U+0916", "U+0917", "U+091A", "U+091B", "U+091C", "U+091F",
     "U+0921", "U+0923", "U+0924", "U+0925", "U+0926", "U+0928", "U+092A", "U+092B",
     "U+092C", "U+092D", "U+092E", "U+092F", "U+0930", "U+0932", "U+0935", "U+0936",
     "U+0937", "U+0938", "U+0939"}

\* language_handler.py:116, re.sub(r'[^\w\s]', '', text.strip())
CleanText(text) ==
    SelectSeq(Strip(text), LAMBDA c : c \in WordCharacters \/ c \in Whitespace)

\* A slip: the length test left out, so that detect() is asked about every text.
DetectLanguageAlwaysAsks(text, oracle) ==
    IF oracle.kind = "raise" THEN [code |-> "en", consulted |-> TRUE]
    ELSE IF oracle.code \in supported_languages
         THEN [code |-> oracle.code, consulted |-> TRUE]
         ELSE IF oracle.code \in DOMAIN language_mapping
              THEN [code |-> language_mapping[oracle.code], consulted |-> TRUE]
              ELSE [code |-> "en", consulted |-> TRUE]

\* A slip: a code that is neither supported nor remapped is returned as detected.
DetectLanguageUnmapped(text, oracle) ==
    IF Len(CleanText(text)) < MIN_CLEANED_LENGTH
    THEN [code |-> "en", consulted |-> FALSE]
    ELSE IF oracle.kind = "raise" THEN [code |-> "en", consulted |-> TRUE]
         ELSE IF oracle.code \in DOMAIN language_mapping
              THEN [code |-> language_mapping[oracle.code], consulted |-> TRUE]
              ELSE [code |-> oracle.code, consulted |-> TRUE]

\* LanguageHandler.detect_language.  oracle is what langdetect's detect()
\* does when it is called: it returns a code or raises; consulted is whether
\* it was called.
DetectLanguage(text, oracle) ==
    LET cleaned_text == CleanText(text)
    IN  IF Len(cleaned_text) < MIN_CLEANED_LENGTH
        THEN [code |-> "en", consulted |-> FALSE]
        ELSE IF oracle.kind = "raise" THEN [code |-> "en", consulted |-> TRUE]
             ELSE IF oracle.code \in supported_languages
                  THEN [code |-> oracle.code, consulted |-> TRUE]
                  ELSE IF oracle.code \in DOMAIN language_mapping
                       THEN [code |-> language_mapping[oracle.code], consulted |-> TRUE]
                       ELSE [code |-> "en", consulted |-> TRUE]

\* language_handler.py:212-214 and 218-220: some keyword of the list is in text_lower
AnyKeywordIn(keywords, text_lower) ==
    \E i \in 1..Len(keywords) : Contains(text_lower, keywords[i])

\* A slip: with a language given, only that language's keywords are tried.
IsImageRequestHintOnly(text, detected_lang) ==
    LET text_lower == Lower(text)
    IN  IF detected_lang # "None" /\ detected_lang \in DOMAIN self_image_keywords
        THEN AnyKeywordIn(self_image_keywords[detected_lang], text_lower)
        ELSE \E lang \in DOMAIN self_image_keywords :
                AnyKeywordIn(self_image_keywords[lang], text_lower)

\* LanguageHandler.is_image_request.  detected_lang is a code or "None".
IsImageRequest(text, detected_lang) ==
    LET text_lower == Lower(text)
        hinted == /\ detected_lang # "None"
                  /\ detected_lang # ""
                  /\ detected_lang \in DOMAIN self_image_keywords
    IN  IF hinted /\ AnyKeywordIn(self_image_keywords[detected_lang], text_lower)
        THEN TRUE
        ELSE \E lang \in DOMAIN self_image_keywords :
                AnyKeywordIn(self_image_keywords[lang], text_lower)

\* language_handler.py:171
INST_OPEN ==
    <<"[", "I", "N", "S", "T", "]">>

\* language_handler.py:178
CONTEXT_LABEL ==
    <<"\n", "\n", "P", "r", "e", "v", "i", "o", "u", "s", " ", "c", "o", "n",
      "v", "e", "r", "s", "a", "t", "i", "o", "n", " ", "c", "o", "n", "t", "e",
      "x", "t", ":">>

\* language_handler.py:185
CURRENT_LABEL ==
    <<"C", "u", "r", "r", "e", "n", "t", " ", "u", "s", "e", "r", " ", "m", "e",
      "s", "s", "a", "g", "e", ":", " ">>

\* language_handler.py:186
ASSISTANT_CUE ==
    <<"\n", "A", "s", "s", "i", "s", "t", "a", "n", "t", ":">>

\* language_handler.py:189
INST_CLOSE ==
    <<"[", "/", "I", "N", "S", "T", "]">>

\* language_handler.py:179, the most characters of the history put in the prompt
HISTORY_LIMIT == 1000

\* s[-n:] for n > 0
Suffix(s, n) == SubSeq(s, Max({1, Len(s) - n + 1}), Len(s))

\* language_handler.py:167, self.system_prompts.get(detected_lang, self.system_prompts['en'])
SystemPrompt(detected_lang) ==
    IF detected_lang \in DOMAIN system_prompts THEN system_prompts[detected_lang]
    ELSE system_prompts["en"]

\* A slip: the history block added for every non-empty history, blank ones included.
PromptWithBlankHistory(system_prompt, user_message, conversation_history) ==
    LET opening == <<INST_OPEN, system_prompt>>
        context == IF conversation_history # <<>>
                   THEN <<CONTEXT_LABEL, Suffix(conversation_history, HISTORY_LIMIT), <<>>>>
                   ELSE <<>>
        prompt_parts == opening \o context
                        \o <<CURRENT_LABEL \o user_message, ASSISTANT_CUE, INST_CLOSE>>
    IN  Join(prompt_parts, <<"\n">>)

\* language_handler.py:170-191 with system_prompt chosen
PromptWith(system_prompt, user_message, conversation_history) ==
    LET opening == <<INST_OPEN, system_prompt>>
        context == IF conversation_history # <<>> /\ Strip(conversation_history) # <<>>
                   THEN <<CONTEXT_LABEL, Suffix(conversation_history, HISTORY_LIMIT), <<>>>>
                   ELSE <<>>
        prompt_parts == opening \o context
                        \o <<CURRENT_LABEL \o user_message, ASSISTANT_CUE, INST_CLOSE>>
    IN  Join(prompt_parts, <<"\n">>)

\* A slip: the handler keeps the language it detected last and composes with
\* that one's template.
CreateContextualPromptSticky(user_message, conversation_history, detected_lang) ==
    PromptWith(SystemPrompt(IF language_handler.last.method = "detect_language"
                            THEN language_handler.last.code ELSE detected_lang),
               user_message, conversation_history)

\* LanguageHandler.create_contextual_prompt
CreateContextualPrompt(user_message, conversation_history, detected_lang) ==
    PromptWith(SystemPrompt(detected_lang), user_message, conversation_history)

\* A call of a method of language_handler: its arguments and what it returned.
\*   method    "detect_language" | "is_image_request" | "create_contextual_prompt"
\*   text      text / user_message
\*   lang      detected_lang ("None" when not given)
\*   oracle    what detect() does when called
\*   consulted whether detect() was called
\*   code      what detect_language returned
\*   flag      what is_image_request returned
\*   prompt    what create_contextual_prompt returned
NoCall ==
    [method |-> "none", text |-> <<>>, history |-> <<>>, lang |-> "None",
     oracle |-> [kind |-> "none", code |-> ""], consulted |-> FALSE,
     code |-> "", flag |-> FALSE, prompt |-> <<>>]

\* language_handler before any call: count is the number of calls made, last
\* the latest one, kept the first call of create_contextual_prompt and kept_at
\* its place among the calls.
NoCalls == [count |-> 0, kept |-> NoCall, kept_at |-> 0, last |-> NoCall]

-----------------------------------------------------------------------------
(* Inputs *)

MSG_HI ==
    <<"h", "i">>

MSG_HOW ==
    <<"h", "e", "l", "l", "o", ",", " ", "h", "o", "w", " ", "a", "r", "e", " ",
      "y", "o", "u", "?">>

MSG_DRAW ==
    <<"d", "r", "a", "w", " ", "m", "e", " ", "a", " ", "f", "o", "x">>

MSG_UPPER ==
    <<"D", "R", "A", "W">>

MSG_REMAKE ==
    <<"r", "e", "m", "a", "k", "e">>

MSG_SHOW ==
    <<"s", "h", "o", "w", " ", " ", "m", "e">>

MSG_CREER ==
    <<"C", "R", "U+00C9", "E", "R">>

MSG_TAIYAR ==
    <<"U+0924", "U+0948", "U+092F", "U+093E", "U+0930", " ", "U+0915", "U+0930",
      "U+094B">>

TXT_SURE ==
    <<"S", "u", "r", "e", "!">>

TXT_FOX ==
    <<"a", " ", "r", "e", "d", " ", "f", "o", "x">>

TXT_DIRECTIVE ==
    <<"S", "u", "r", "e", "!", " ", "I", "M", "A", "G", "E", "_", "R", "E", "Q",
      "U", "E", "S", "T", ":", " ", "a", " ", "r", "e", "d", " ", "f", "o", "x">>

TXT_HELP ==
    <<"I", "'", "l", "l", " ", "h", "e", "l", "p", ".", " ", "I", "M", "A", "G",
      "E", "_", "R", "E", "Q", "U", "E", "S", "T", ":", " ", "a", " ", "r", "e",
      "d", " ", "f", "o", "x">>

TXT_BARE ==
    <<"I", "M", "A", "G", "E", "_", "R", "E", "Q", "U", "E", "S", "T">>

\* The most turns one ConversationMemory is given between two clear() calls (SpecMemory).
MaxTurns == 4

\* The largest configured MAX_CONVERSATION_TOKENS (config.py:25 is its default, 1000;
\* Settings reads it from the environment).
MaxBudget == 3

\* The most requests accepted in one run of the server.
MaxRequests == 3

\* The most requests open at once.
MaxTasks == 2

\* The most pieces a model reply is put together from (SpecRoute).
MaxPieces == 3

\* How far past PROMPT_LIMIT the long image prompts go (SpecRoute).
MaxOverrun == 1

\* MAX_CONVERSATION_TOKENS of the server.
ServerBudget == 2

\* two letters and a punctuation mark
TXT_OK ==
    <<"o", "k", "!">>

\* two letters inside whitespace
TXT_PADDED ==
    <<"\t", "a", "b", "\n">>

\* a letter between spaces and punctuation: " a " once cleaned
TXT_SPACED ==
    <<"!", " ", "a", " ", "!">>

\* the Hindi keyword for image: two letters and a vowel sign
TXT_CHHAVI ==
    <<"U+091B", "U+0935", "U+093F">>

\* a history of one turn, as get_conversation_string renders it
HISTORY_ONE ==
    <<"H", "u", "m", "a", "n", ":", " ", "h", "i", "\n", "A", "s", "s", "i", "s",
      "t", "a", "n", "t", ":", " ", "S", "u", "r", "e", "!">>

\* The most calls made on language_handler in one run (SpecLanguage).
MaxCalls == 3

\* text of the detect_language calls
DetectTexts ==
    {<<>>, MSG_HI, TXT_OK, TXT_PADDED, TXT_SPACED, TXT_CHHAVI, MSG_DRAW}

\* What langdetect's detect() does: it returns a supported code, a code of
\* language_mapping, another code, or raises LangDetectException.
OracleOutcomes ==
    {[kind |-> "code", code |-> c] :
        c \in {"en", "hi", "es", "fr", "ca", "pt", "it", "de", "nl", "ru"}}
    \cup {[kind |-> "raise", code |-> ""]}

\* text of the is_image_request calls
ClassifierTexts ==
    {MSG_HI, MSG_DRAW, MSG_CREER, MSG_TAIYAR, TXT_CHHAVI}

\* detected_lang of the is_image_request calls: not given, empty, supported, unrecognized
Hints == {"None", "", "en", "hi", "fr", "de"}

\* user_message of the create_contextual_prompt calls
ComposeMessages == {MSG_DRAW}

\* conversation_history of the create_contextual_prompt calls: empty, blank,
\* one turn, and longer than HISTORY_LIMIT
ComposeHistories ==
    {<<>>, <<" ", "\n">>, HISTORY_ONE, HISTORY_ONE \o Rep("h", HISTORY_LIMIT)}

\* detected_lang of the create_contextual_prompt calls
ComposeLanguages == supported_languages \cup {"de"}

\* The most turns of the stores get_conversation_string is called on (SpecWindow).
MaxWindowTurns == 6

\* The turns of those stores: each of estimate 0, so that a store of any
\* number of them is within every budget.  The second has an empty assistant
\* text (the response of a reply that begins with the marker).
WindowTurns ==
    {MessageEntry(MSG_HI, TXT_OK), MessageEntry(<<"a", "b">>, <<>>)}

\* The stores get_conversation_string is called on: add_message has been
\* called up to MaxWindowTurns times since the store was made.
WindowStores ==
    {[NewMemory(MaxBudget) EXCEPT !.messages = turns, !.appended = turns] :
        turns \in UNION {[1..n -> WindowTurns] : n \in 0..MaxWindowTurns}}

\* max_exchanges of the calls
WindowSizes == {-1, 0, 1, 2, DEFAULT_MAX_EXCHANGES}

\* The most turns a store of SpecPersist is given
MaxSavedTurns == 2

TXT_SKY ==
    <<"T", "e", "l", "l", " ", "m", "e", " ", "\"", "w", "h", "y",
      "\"", " ", "t", "h", "e", " ", "s", "k", "y", "\n", "i", "s",
      " ", "b", "l", "u", "e", " ", "\\", " ", "a", "n", "d", " ",
      "w", "h", "a", "t", " ", "m", "a", "k", "e", "s", " ", "s",
      "u", "n", "s", "e", "t", "s", " ", "r", "e", "d">>

TXT_QUOTED ==
    <<"s", "a", "y", " ", "\"", "h", "i", "\"", "\t", "o", "r", " ",
      "\\", "n">>

TXT_SURROGATE ==
    <<"h", "U+D800">>

\* The turns added to the stores that are saved: a long user text with
\* characters JSON escapes, a short one, and one that UTF-8 cannot encode
PersistTurns ==
    {[human |-> TXT_SKY, ai |-> TXT_OK],
     [human |-> MSG_HI, ai |-> TXT_QUOTED],
     [human |-> TXT_SURROGATE, ai |-> <<>>]}

\* The stores: one that is given turns, and one that only ever loads
PersistStores == {1, 2}

\* The session ids saved under; the other ids of Sessions never have a file
SavedSessions == {"s1"}

\* The budgets of the stores that are saved
PersistBudgets == {MaxBudget, DEFAULT_MAX_TOKENS}

TaskIds == 1..MaxTasks

NoTask == 0

Sessions == {"s1", "s2"}

\* request.message of the requests sent to the server
UserMessages == {MSG_HI, MSG_DRAW}

\* What detect() does for the server: an unsupported code with a remap, or it raises.
ServerOracles ==
    {[kind |-> "code", code |-> "pt"], [kind |-> "raise", code |-> ""]}

\* The completions self.llm(...) gives the server.
ServerCompletions ==
    {[kind |-> "text", text |-> TXT_SURE],
     [kind |-> "text", text |-> TXT_DIRECTIVE]}

\* The texts handed to add_message directly (SpecMemory): 0, 1 and 2 tokens.
MemoryTexts == {Rep("a", 3), Rep("a", 4), Rep("a", 8)}

\* request.message of a routed exchange (SpecRoute)
RouteMessages ==
    {<<>>, MSG_HOW, MSG_DRAW, MSG_UPPER, MSG_REMAKE, MSG_SHOW, MSG_CREER, MSG_TAIYAR}

RoutePieces == <<MARKER, TXT_BARE, <<" ">>, <<"\n">>, TXT_SURE, TXT_FOX>>

\* Every concatenation of at most MaxPieces pieces.
PiecedTexts ==
    {Concat([i \in 1..Len(f) |-> RoutePieces[f[i]]]) :
        f \in UNION {[1..k -> 1..Len(RoutePieces)] : k \in 0..MaxPieces}}

\* 0-based indices at which a long image prompt may hold a space.
SpacePositions == {LAST_SPACE_FLOOR, LAST_SPACE_FLOOR + 1, PROMPT_LIMIT - 1}

\* 0-based indices at which a long image prompt may hold a line break.
BreakPositions == {LAST_SPACE_FLOOR + 60}

\* A prompt of n characters, "x" but for the spaces and line breaks.
LongPrompt(n, spaces, breaks) ==
    [i \in 1..n |-> IF (i - 1) \in spaces THEN " "
                    ELSE IF (i - 1) \in breaks THEN "\n" ELSE "x"]

\* Replies that carry a directive with a prompt around PROMPT_LIMIT characters.
LongTexts ==
    {TXT_SURE \o <<" ">> \o MARKER \o <<" ">> \o LongPrompt(n, sp, br) :
        n \in PROMPT_LIMIT..(PROMPT_LIMIT + MaxOverrun),
        sp \in SUBSET SpacePositions, br \in SUBSET BreakPositions}

\* The replies of the examples of spec.md section 8.
ExampleTexts == {TXT_DIRECTIVE, TXT_HELP}

\* The completions self.llm(...) gives a routed exchange (SpecRoute).
RouteCompletions ==
    {[kind |-> "text", text |-> t] : t \in PiecedTexts \cup LongTexts \cup ExampleTexts}
    \cup {[kind |-> "raise", text |-> <<>>]}

-----------------------------------------------------------------------------
(* The server, src/main.py *)

\* A request task: the request, the locals of its handler and its response.
\*   pc         "idle" no request; "pending" accepted, handler not begun;
\*              "llm" inside mistral_handler.generate_response (line 134);
\*              "image" inside image_generator.generate_image (line 167);
\*              "done" responded
\*   memory     the object id bound to the local `memory` (line 118), 0 if none
\*   max_exchanges the max_exchanges get_conversation_string was called with
\*   history    what memory.get_conversation_string() returned (line 125)
\*   completion what self.llm(...) did inside generate_response
\*   raw        what generate_response returned (line 134)
\*   read_len   how many turns the store had been given when the history was
\*              read (line 125)
\*   invoked    whether generate_image was called
\*   pipeline   what self.pipe(...) did inside generate_image
\*   image_size width and height of the image generate_image returned
\*   outcome    how the image step ended ("generated", "lightgray": the image
\*              returned; "raise": line 181 reached), or what DELETE found
\*   turn_index the place of this exchange's turn among the turns its store
\*              had been given, 0 before add_message
\*   status     the HTTP status of the response, 0 before it
\*   language   detected_lang (line 121), the language field of the response
IdleTask ==
    [pc |-> "idle", kind |-> "none", session_id |-> "", message |-> <<>>,
     memory |-> 0, read_len |-> 0, history |-> <<>>, raw |-> <<>>, marker |-> FALSE,
     synthesize |-> FALSE, text_response |-> <<>>, extracted |-> <<>>,
     image_prompt |-> <<>>, response |-> <<>>, image_data |-> "None",
     invoked |-> FALSE, outcome |-> "none", turn_index |-> 0, status |-> 0,
     language |-> "", completion |-> [kind |-> "none", text |-> <<>>],
     max_exchanges |-> 0, pipeline |-> "none", image_size |-> <<0, 0>>]

\* data/conversations with no file in it
NoFiles == [session_id \in Sessions |-> NoFile]

\* No intact file yet: nothing was saved
NoSnapshot == [saved |-> FALSE, memory |-> NewMemory(0)]

NoSnapshots == [session_id \in Sessions |-> NoSnapshot]

NoMemories == [s \in {} |-> 0]

NoObjects == [o \in {} |-> NewMemory(0)]

\* The state after `import main`: main.py:30-36.
Init ==
    /\ mistral_handler = "None"
    /\ image_generator = "None"
    /\ conversations_dir = NoFiles
    /\ snapshots = NoSnapshots
    /\ settings = [MAX_CONVERSATION_TOKENS |-> ServerBudget, SD_WIDTH |-> DEFAULT_SD_WIDTH,
                   SD_HEIGHT |-> DEFAULT_SD_HEIGHT]
    /\ language_handler = NoCalls
    /\ conversation_memories = NoMemories
    /\ heap = NoObjects
    /\ tasks = [t \in TaskIds |-> IdleTask]
    /\ running = NoTask
    /\ served = 0
    /\ exchange = IdleTask

\* A slip: the handler run off the event loop (a plain `def` endpoint, or the
\* model calls awaited in an executor), so that handlers overlap.
CanStartAnytime == TRUE

\* main.py:106-107, 207-208: the handlers are `async def` and hold no await,
\* so the event loop runs one handler from its first line to its return
\* before it starts another.
CanStart == running = NoTask

\* The frames once handler t has returned as `frame`: the frame of the
\* handler that returned before it is gone.
Return(t, frame) ==
    [u \in TaskIds |->
        IF u = t THEN frame
        ELSE IF tasks[u].pc = "done" THEN IdleTask ELSE tasks[u]]

\* A slip: no new object, the lowest id there is (1 when there is none yet).
FreshIdShared == Min(DOMAIN heap \cup {1})

\* An object id not in use.
FreshId == Min((1..(Cardinality(DOMAIN heap) + 1)) \ DOMAIN heap)

\* The objects still referenced: by conversation_memories or by the local
\* `memory` of a handler that has not returned.
Live(memories, ts, objects) ==
    LET refs == {memories[s] : s \in DOMAIN memories}
                \cup {ts[t].memory : t \in {u \in TaskIds : ts[u].pc \in {"llm", "image"}}}
    IN  [o \in DOMAIN objects \cap refs |-> objects[o]]

\* main.py:63-85, startup_event.  loaded_image is whether ImageGenerator(...)
\* succeeded; when it raised, mistral_handler is already set (line 70).  (When
\* MistralHandler(...) raises, both handles stay None: the state is unchanged.)
\* The handlers below do not test that it has run: an app driven without its
\* lifespan answers with the handles at None, which /health (lines 95-103)
\* reports.
Startup(loaded_image) ==
    /\ mistral_handler = "None"
    /\ served = 0
    /\ mistral_handler' = "loaded"
    /\ image_generator' = IF loaded_image THEN "loaded" ELSE "None"
    /\ UNCHANGED <<settings, conversations_dir, snapshots, language_handler, conversation_memories, heap, tasks, running, served, exchange>>

\* A client sends POST /chat or DELETE /session/{id}.
Arrive(t, kind, session_id, message) ==
    /\ tasks[t].pc \in {"idle", "done"}
    \* task ids are names only: the lowest free one is taken
    /\ \A u \in 1..(t - 1) : tasks[u].pc \notin {"idle", "done"}
    /\ served < MaxRequests
    /\ tasks' = [tasks EXCEPT ![t] =
                    [IdleTask EXCEPT !.pc = "pending", !.kind = kind,
                                     !.session_id = session_id, !.message = message]]
    /\ served' = served + 1
    /\ UNCHANGED <<mistral_handler, image_generator, settings, conversations_dir, snapshots, language_handler, conversation_memories,
                   heap, running, exchange>>

\* main.py:136-163 and, when no call of generate_image is made, 165-188: the
\* task once generate_response has returned raw.
AfterModel(task, raw, generator) ==
    LET r == Route(raw, task.message)
        base == [task EXCEPT !.raw = raw, !.marker = r.marker,
                             !.synthesize = r.synthesize,
                             !.text_response = r.text_response,
                             !.extracted = r.extracted,
                             !.image_prompt = r.image_prompt,
                             !.response = r.text_response]
    IN  IF r.synthesize
        THEN IF generator = "loaded"
             THEN [base EXCEPT !.pc = "image", !.invoked = TRUE]
             ELSE LET i == ImageStep(r.text_response, NoGenerator)
                  IN  [base EXCEPT !.pc = "save", !.response = i.response,
                                   !.image_data = i.image_data, !.outcome = "raise"]
        ELSE [base EXCEPT !.pc = "save"]

\* main.py:174-183: the task once generate_image has returned or raised.
AfterImage(task, outcome) ==
    LET i == ImageStep(task.text_response, outcome)
    IN  [task EXCEPT !.pc = "save", !.response = i.response,
                     !.image_data = i.image_data,
                     !.pipeline = outcome.pipe,
                     !.image_size = <<outcome.width, outcome.height>>,
                     !.outcome = IF outcome.kind = "raise" THEN "raise" ELSE outcome.image]

\* A slip: the turn saved with the text before the image step, so without the
\* note lines 181-183 may have added.
SaveAndReturnTextOnly(t, task) ==
    /\ tasks' = Return(t, [task EXCEPT !.pc = "done", !.status = 200, !.memory = 0,
                                        !.turn_index = Len(heap[task.memory].appended) + 1])
    /\ heap' = Live(conversation_memories, tasks',
                    [heap EXCEPT ![task.memory] = AddMessage(@, task.message, task.text_response)])
    /\ running' = NoTask

\* main.py:191-201: memory.add_message and the 200 response.
SaveAndReturn(t, task) ==
    /\ tasks' = Return(t, [task EXCEPT !.pc = "done", !.status = 200, !.memory = 0,
                                        !.turn_index = Len(heap[task.memory].appended) + 1])
    /\ heap' = Live(conversation_memories, tasks',
                    [heap EXCEPT ![task.memory] = AddMessage(@, task.message, task.response)])
    /\ running' = NoTask

\* A slip: the except clause recording the failed exchange in the session's store.
StoresAfterErrorRecorded(objects, oid, req) ==
    [objects EXCEPT ![oid] = AddMessage(@, req.message, NONE_ATTRIBUTE_ERROR)]

\* main.py:203-205: the stores once the except clause has turned the
\* exception into a 500; it logs and raises HTTPException, nothing else.
StoresAfterError(objects, oid, req) == objects

\* main.py:109-134: the handler up to the call of generate_response.
ChatBegin(t, oracle) ==
    LET req == tasks[t]
        detected_lang == DetectLanguage(req.message, oracle).code
        known == req.session_id \in DOMAIN conversation_memories
        oid == IF known THEN conversation_memories[req.session_id] ELSE FreshId
        objects == IF known THEN heap
                   ELSE [o \in DOMAIN heap \cup {oid} |->
                            IF o = oid THEN NewMemory(settings.MAX_CONVERSATION_TOKENS)
                            ELSE heap[o]]
        memories == [s \in DOMAIN conversation_memories \cup {req.session_id} |->
                        IF s = req.session_id THEN oid ELSE conversation_memories[s]]
        history == GetConversationString(objects[oid], DEFAULT_MAX_EXCHANGES)
    IN  /\ req.pc = "pending"
        /\ req.kind = "chat"
        /\ CanStart
        /\ conversation_memories' = memories
        /\ IF mistral_handler = "None"
           THEN \* line 134 raises AttributeError: lines 203-205, a 500
                /\ tasks' = Return(t, [req EXCEPT !.pc = "done", !.status = 500,
                                                  !.language = detected_lang,
                                                  !.max_exchanges = DEFAULT_MAX_EXCHANGES,
                                                  !.history = history])
                /\ heap' = Live(memories, tasks', StoresAfterError(objects, oid, req))
                /\ running' = NoTask
           ELSE /\ tasks' = [tasks EXCEPT ![t] =
                                [req EXCEPT !.pc = "llm", !.memory = oid,
                                            !.read_len = Len(objects[oid].appended),
                                            !.language = detected_lang,
                                            !.max_exchanges = DEFAULT_MAX_EXCHANGES,
                                            !.history = history]]
                /\ heap' = objects
                /\ running' = t
        /\ UNCHANGED <<mistral_handler, image_generator, settings, conversations_dir, snapshots, language_handler, served, exchange>>

\* generate_response returns (line 134); lines 136-163 follow, and the rest
\* of the handler unless generate_image is called.
ChatModelReturns(t, completion) ==
    LET task == AfterModel([tasks[t] EXCEPT !.completion = completion],
                           GenerateResponse(completion), image_generator)
    IN  /\ tasks[t].pc = "llm"
        /\ IF task.pc = "image"
           THEN /\ tasks' = [tasks EXCEPT ![t] = task]
                /\ UNCHANGED <<heap, running>>
           ELSE SaveAndReturn(t, task)
        /\ UNCHANGED <<mistral_handler, image_generator, settings, conversations_dir, snapshots, language_handler,
                       conversation_memories, served, exchange>>

\* generate_image returns or an exception reaches line 181; lines 174-201 follow.
ChatImageReturns(t, outcome) ==
    /\ tasks[t].pc = "image"
    /\ SaveAndReturn(t, AfterImage(tasks[t], ImageCall(outcome, settings.SD_WIDTH,
                                                        settings.SD_HEIGHT)))
    /\ UNCHANGED <<mistral_handler, image_generator, settings, conversations_dir, snapshots, language_handler,
                   conversation_memories, served, exchange>>

\* A slip: clear_session answers without deleting the entry.
ForgetNothing(memories, session_id) == memories

\* main.py:210-211, `del conversation_memories[session_id]` when the id is bound
Forget(memories, session_id) ==
    [s \in DOMAIN memories \ {session_id} |-> memories[s]]

\* main.py:207-214, clear_session
ClearSession(t) ==
    LET req == tasks[t]
        memories == Forget(conversation_memories, req.session_id)
    IN  /\ req.pc = "pending"
        /\ req.kind = "delete"
        /\ CanStart
        /\ conversation_memories' = memories
        /\ tasks' = Return(t, [req EXCEPT !.pc = "done", !.status = 200,
                                           !.outcome = IF req.session_id \in DOMAIN conversation_memories
                                                       THEN "cleared" ELSE "not found"])
        /\ heap' = Live(memories, tasks', heap)
        /\ running' = NoTask
        /\ UNCHANGED <<mistral_handler, image_generator, settings, conversations_dir, snapshots, language_handler, served, exchange>>

Next ==
    \/ \E loaded_image \in BOOLEAN : Startup(loaded_image)
    \/ \E t \in TaskIds, s \in Sessions, m \in UserMessages : Arrive(t, "chat", s, m)
    \/ \E t \in TaskIds, s \in Sessions : Arrive(t, "delete", s, <<>>)
    \/ \E t \in TaskIds, oracle \in ServerOracles : ChatBegin(t, oracle)
    \/ \E t \in TaskIds, c \in ServerCompletions : ChatModelReturns(t, c)
    \/ \E t \in TaskIds, o \in ImageOutcomes : ChatImageReturns(t, o)
    \/ \E t \in TaskIds : ClearSession(t)

Spec == Init /\ [][Next]_vars

-----------------------------------------------------------------------------
(* One ConversationMemory driven directly: add_message and clear *)

InitMemory ==
    /\ mistral_handler = "None"
    /\ image_generator = "None"
    /\ conversations_dir = NoFiles
    /\ snapshots = NoSnapshots
    /\ settings \in [MAX_CONVERSATION_TOKENS : 0..MaxBudget, SD_WIDTH : {DEFAULT_SD_WIDTH},
                    SD_HEIGHT : {DEFAULT_SD_HEIGHT}]
    /\ language_handler = NoCalls
    /\ conversation_memories = NoMemories
    /\ heap = [o \in {1} |-> NewMemory(settings.MAX_CONVERSATION_TOKENS)]
    /\ tasks = [t \in TaskIds |-> IdleTask]
    /\ running = NoTask
    /\ served = 0
    /\ exchange = IdleTask

\* memory.add_message(human_message, ai_message)
MemoryAdd(o, human_message, ai_message) ==
    /\ Len(heap[o].appended) < MaxTurns
    /\ heap' = [heap EXCEPT ![o] = AddMessage(@, human_message, ai_message)]
    /\ UNCHANGED <<mistral_handler, image_generator, settings, conversations_dir, snapshots, language_handler, conversation_memories,
                   tasks, running, served, exchange>>

\* memory.clear()
MemoryClear(o) ==
    /\ heap[o].appended # <<>>
    /\ heap' = [heap EXCEPT ![o] = ClearMemory(@)]
    /\ UNCHANGED <<mistral_handler, image_generator, settings, conversations_dir, snapshots, language_handler, conversation_memories,
                   tasks, running, served, exchange>>

NextMemory ==
    \/ \E o \in DOMAIN heap, h \in MemoryTexts, a \in MemoryTexts : MemoryAdd(o, h, a)
    \/ \E o \in DOMAIN heap : MemoryClear(o)

SpecMemory == InitMemory /\ [][NextMemory]_vars

-----------------------------------------------------------------------------
(* ConversationMemory objects saved to and loaded from data/conversations *)

InitPersist ==
    /\ mistral_handler = "None"
    /\ image_generator = "None"
    /\ conversations_dir = NoFiles
    /\ snapshots = NoSnapshots
    /\ settings \in [MAX_CONVERSATION_TOKENS : PersistBudgets, SD_WIDTH : {DEFAULT_SD_WIDTH},
                    SD_HEIGHT : {DEFAULT_SD_HEIGHT}]
    /\ language_handler = NoCalls
    /\ conversation_memories = NoMemories
    /\ heap = [o \in PersistStores |-> NewMemory(settings.MAX_CONVERSATION_TOKENS)]
    /\ tasks = [t \in TaskIds |-> IdleTask]
    /\ running = NoTask
    /\ served = 0
    /\ exchange = IdleTask

\* memory.add_message(human_message, ai_message)
PersistAdd(o, human_message, ai_message) ==
    /\ Len(heap[o].appended) < MaxSavedTurns
    /\ heap' = [heap EXCEPT ![o] = AddMessage(@, human_message, ai_message)]
    /\ exchange' = [IdleTask EXCEPT !.pc = "done", !.kind = "add", !.memory = o]
    /\ UNCHANGED <<mistral_handler, image_generator, settings, conversations_dir, snapshots,
                   language_handler, conversation_memories, tasks, running, served>>

\* memory.save_to_file(session_id)
PersistSave(o, session_id, fault) ==
    \E call \in {SaveToFile(heap[o], session_id, conversations_dir, fault)} :
        /\ conversations_dir' = call.dir
        /\ snapshots' =
              IF call.returned
              THEN [snapshots EXCEPT ![session_id] = [saved |-> TRUE, memory |-> heap[o]]]
              ELSE IF call.dir[session_id].kind = "partial"
              THEN [snapshots EXCEPT ![session_id] = NoSnapshot]
              ELSE snapshots
        /\ exchange' = [IdleTask EXCEPT !.pc = "done", !.kind = "save", !.memory = o,
                                        !.session_id = session_id,
                                        !.outcome = IF call.returned THEN "True" ELSE "False"]
        /\ UNCHANGED <<mistral_handler, image_generator, settings, language_handler,
                       conversation_memories, heap, tasks, running, served>>

\* memory.load_from_file(session_id)
PersistLoad(o, session_id, fault) ==
    \E call \in {LoadFromFile(heap[o], session_id, conversations_dir, fault)} :
        /\ heap' = [heap EXCEPT ![o] = call.memory]
        /\ exchange' = [IdleTask EXCEPT !.pc = "done", !.kind = "load", !.memory = o,
                                        !.session_id = session_id,
                                        !.outcome = IF call.returned THEN "True" ELSE "False"]
        /\ UNCHANGED <<mistral_handler, image_generator, settings, conversations_dir, snapshots,
                       language_handler, conversation_memories, tasks, running, served>>

NextPersist ==
    \/ \E turn \in PersistTurns : PersistAdd(1, turn.human, turn.ai)
    \/ \E o \in PersistStores, session_id \in SavedSessions, fault \in SaveFaults :
          PersistSave(o, session_id, fault)
    \/ \E o \in PersistStores, session_id \in Sessions, fault \in LoadFaults :
          PersistLoad(o, session_id, fault)

SpecPersist == InitPersist /\ [][NextPersist]_vars

-----------------------------------------------------------------------------
(* get_conversation_string called on one ConversationMemory *)

InitWindow ==
    /\ mistral_handler = "None"
    /\ image_generator = "None"
    /\ conversations_dir = NoFiles
    /\ snapshots = NoSnapshots
    /\ settings \in [MAX_CONVERSATION_TOKENS : {MaxBudget}, SD_WIDTH : {DEFAULT_SD_WIDTH},
                    SD_HEIGHT : {DEFAULT_SD_HEIGHT}]
    /\ language_handler = NoCalls
    /\ conversation_memories = NoMemories
    /\ heap \in [{1} -> WindowStores]
    /\ tasks = [t \in TaskIds |-> IdleTask]
    /\ running = NoTask
    /\ served = 0
    /\ exchange = IdleTask

\* memory.get_conversation_string(max_exchanges=max_exchanges); the caller
\* keeps what it returned.
WindowRead(o, max_exchanges) ==
    /\ exchange' = [IdleTask EXCEPT !.pc = "done", !.kind = "window", !.memory = o,
                                    !.max_exchanges = max_exchanges,
                                    !.history = GetConversationString(heap[o], max_exchanges)]
    /\ UNCHANGED <<mistral_handler, image_generator, settings, conversations_dir, snapshots, language_handler,
                   conversation_memories, heap, tasks, running, served>>

NextWindow == \E o \in DOMAIN heap, max_exchanges \in WindowSizes : WindowRead(o, max_exchanges)

SpecWindow == InitWindow /\ [][NextWindow]_vars

-----------------------------------------------------------------------------
(* One exchange routed outside any session: lines 132-188 of chat_endpoint *)

InitRoute ==
    /\ mistral_handler = "loaded"
    /\ image_generator \in {"None", "loaded"}
    /\ conversations_dir = NoFiles
    /\ snapshots = NoSnapshots
    /\ settings \in [MAX_CONVERSATION_TOKENS : {MaxBudget}, SD_WIDTH : {DEFAULT_SD_WIDTH},
                    SD_HEIGHT : {DEFAULT_SD_HEIGHT}]
    /\ language_handler = NoCalls
    /\ conversation_memories = [s \in {"s1"} |-> 1]
    /\ heap = [o \in {1} |-> NewMemory(settings.MAX_CONVERSATION_TOKENS)]
    /\ tasks = [t \in TaskIds |-> IdleTask]
    /\ running = NoTask
    /\ served = 0
    /\ exchange \in {[IdleTask EXCEPT !.pc = "llm", !.kind = "chat", !.session_id = "s1",
                                       !.memory = 1, !.message = m] :
                        m \in RouteMessages}

\* generate_response returns; lines 136-163 follow.
RouteReply(completion) ==
    /\ exchange.pc = "llm"
    /\ exchange' = AfterModel([exchange EXCEPT !.completion = completion],
                              GenerateResponse(completion), image_generator)
    /\ UNCHANGED <<mistral_handler, image_generator, settings, conversations_dir, snapshots, language_handler, conversation_memories,
                   heap, tasks, running, served>>

\* generate_image returns or raises; lines 174-183 follow.
RouteImage(outcome) ==
    /\ exchange.pc = "image"
    /\ exchange' = AfterImage(exchange, ImageCall(outcome, settings.SD_WIDTH,
                                                  settings.SD_HEIGHT))
    /\ UNCHANGED <<mistral_handler, image_generator, settings, conversations_dir, snapshots, language_handler, conversation_memories,
                   heap, tasks, running, served>>

\* A slip: the model's reply stored as it came, directive included.
RouteSaveRaw ==
    /\ exchange.pc = "save"
    /\ exchange' = [exchange EXCEPT !.pc = "done", !.status = 200, !.memory = 0,
                                    !.turn_index = Len(heap[exchange.memory].appended) + 1]
    /\ heap' = [heap EXCEPT ![exchange.memory] =
                                AddMessage(@, exchange.message, exchange.raw)]
    /\ UNCHANGED <<mistral_handler, image_generator, settings, conversations_dir, snapshots, language_handler,
                   conversation_memories, tasks, running, served>>

\* memory.add_message and the 200 response; lines 191-201.
RouteSave ==
    /\ exchange.pc = "save"
    /\ exchange' = [exchange EXCEPT !.pc = "done", !.status = 200, !.memory = 0,
                                    !.turn_index = Len(heap[exchange.memory].appended) + 1]
    /\ heap' = [heap EXCEPT ![exchange.memory] =
                                AddMessage(@, exchange.message, exchange.response)]
    /\ UNCHANGED <<mistral_handler, image_generator, settings, conversations_dir, snapshots, language_handler,
                   conversation_memories, tasks, running, served>>

NextRoute ==
    \/ \E c \in RouteCompletions : RouteReply(c)
    \/ \E o \in ImageOutcomes : RouteImage(o)
    \/ RouteSave

SpecRoute == InitRoute /\ [][NextRoute]_vars

-----------------------------------------------------------------------------
(* language_handler driven directly: its three methods called in any order *)

InitLanguage ==
    /\ mistral_handler = "None"
    /\ image_generator = "None"
    /\ conversations_dir = NoFiles
    /\ snapshots = NoSnapshots
    /\ settings \in [MAX_CONVERSATION_TOKENS : {MaxBudget}, SD_WIDTH : {DEFAULT_SD_WIDTH},
                    SD_HEIGHT : {DEFAULT_SD_HEIGHT}]
    /\ language_handler = NoCalls
    /\ conversation_memories = NoMemories
    /\ heap = NoObjects
    /\ tasks = [t \in TaskIds |-> IdleTask]
    /\ running = NoTask
    /\ served = 0
    /\ exchange = IdleTask

\* The record of the calls once `call` has been made and has returned.
Called(call) ==
    LET first == /\ language_handler.kept.method = "none"
                 /\ call.method = "create_contextual_prompt"
    IN  [count |-> language_handler.count + 1,
         kept |-> IF first THEN call ELSE language_handler.kept,
         kept_at |-> IF first THEN language_handler.count + 1
                     ELSE language_handler.kept_at,
         last |-> call]

\* language_handler.detect_language(text)
DetectLanguageCall(text, oracle) ==
    /\ language_handler.count < MaxCalls
    /\ LET r == DetectLanguage(text, oracle)
       IN  language_handler' =
               Called([NoCall EXCEPT !.method = "detect_language", !.text = text,
                                     !.oracle = oracle, !.consulted = r.consulted,
                                     !.code = r.code])
    /\ UNCHANGED <<mistral_handler, image_generator, settings, conversations_dir, snapshots, conversation_memories,
                   heap, tasks, running, served, exchange>>

\* language_handler.is_image_request(text, detected_lang)
IsImageRequestCall(text, detected_lang) ==
    /\ language_handler.count < MaxCalls
    /\ language_handler' =
           Called([NoCall EXCEPT !.method = "is_image_request", !.text = text,
                                 !.lang = detected_lang,
                                 !.flag = IsImageRequest(text, detected_lang)])
    /\ UNCHANGED <<mistral_handler, image_generator, settings, conversations_dir, snapshots, conversation_memories,
                   heap, tasks, running, served, exchange>>

\* language_handler.create_contextual_prompt(user_message, conversation_history, detected_lang)
CreateContextualPromptCall(user_message, conversation_history, detected_lang) ==
    /\ language_handler.count < MaxCalls
    /\ language_handler' =
           Called([NoCall EXCEPT !.method = "create_contextual_prompt",
                                 !.text = user_message,
                                 !.history = conversation_history,
                                 !.lang = detected_lang,
                                 !.prompt = CreateContextualPrompt(user_message,
                                                                   conversation_history,
                                                                   detected_lang)])
    /\ UNCHANGED <<mistral_handler, image_generator, settings, conversations_dir, snapshots, conversation_memories,
                   heap, tasks, running, served, exchange>>

NextLanguage ==
    \/ \E text \in DetectTexts, oracle \in OracleOutcomes : DetectLanguageCall(text, oracle)
    \/ \E text \in ClassifierTexts, hint \in Hints : IsImageRequestCall(text, hint)
    \/ \E m \in ComposeMessages, h \in ComposeHistories, l \in ComposeLanguages :
            CreateContextualPromptCall(m, h, l)

SpecLanguage == InitLanguage /\ [][NextLanguage]_vars

-----------------------------------------------------------------------------
(* The history store: claims C1, C2 (SpecMemory) *)

\* C1: in every state every ConversationMemory either keeps its running total
\* (and the summed estimates of its retained turns) within max_tokens, or
\* retains exactly one turn.
C1_WithinBudgetOrSingleTurn ==
    \A o \in DOMAIN heap :
        \/ /\ heap[o].total_tokens <= heap[o].max_tokens
           /\ SumTokens(heap[o].messages) <= heap[o].max_tokens
        \/ Len(heap[o].messages) = 1

\* An insertion has evicted every older turn and the one that is left is over budget.
C1_Witness ==
    \E o \in DOMAIN heap :
        /\ Len(heap[o].appended) > 1
        /\ Len(heap[o].messages) = 1
        /\ heap[o].total_tokens > heap[o].max_tokens

\* C2: the retained turns are a suffix of the appended turns, in order; the
\* newest turn is always retained; more than one turn is retained only within
\* the budget; and the suffix is the longest that fits: with the turn evicted
\* last put back it would exceed max_tokens.  (So the first add_message on an
\* empty store evicts nothing.)
C2_LongestFittingSuffix ==
    \A o \in DOMAIN heap :
        LET m == heap[o]
            n == Len(m.appended)
            k == Len(m.messages)
        IN  /\ k <= n
            /\ n > 0 => k >= 1
            /\ m.messages = SubSeq(m.appended, n - k + 1, n)
            /\ k > 1 => SumTokens(m.messages) <= m.max_tokens
            /\ k < n => SumTokens(SubSeq(m.appended, n - k, n)) > m.max_tokens

\* Two turns were evicted and two are retained.
C2_Witness ==
    \E o \in DOMAIN heap :
        /\ Len(heap[o].appended) = Len(heap[o].messages) + 2
        /\ Len(heap[o].messages) = 2

-----------------------------------------------------------------------------
(* Response routing: claims C3-C7 (SpecRoute) *)

\* The exchange has passed lines 136-163.
Routed == exchange.pc \in {"image", "save"}

\* sub occurs in s at position p (from 1)
OccursAt(s, sub, p) ==
    /\ p + Len(sub) - 1 <= Len(s)
    /\ \A j \in 1..Len(sub) : s[p + j - 1] = sub[j]

\* The positions of the marker in the model's reply.
MarkerPositions == {p \in 1..Len(exchange.raw) : OccursAt(exchange.raw, MARKER, p)}

\* The reply before its first marker, trimmed.
BeforeMarker == Strip(SubSeq(exchange.raw, 1, Min(MarkerPositions) - 1))

\* The reply after its first marker, trimmed.
AfterMarker ==
    Strip(SubSeq(exchange.raw, Min(MarkerPositions) + Len(MARKER), Len(exchange.raw)))

\* Marker, keyword in the user's message and a non-empty prompt.
ValidDirective ==
    /\ MarkerPositions # {}
    /\ HasImageKeyword(exchange.message)
    /\ AfterMarker # <<>>

\* C3: image synthesis is decided on, and generate_image called, only for a
\* reply with the marker, a user message with an image keyword and a non-empty
\* trimmed text after the marker; a reply with the marker that fails this
\* gets the trimmed text before the marker as the response, no image_data and
\* no failure note.
C3_SynthesisOnlyWhenValid ==
    Routed =>
        /\ (exchange.synthesize \/ exchange.invoked) => ValidDirective
        /\ (MarkerPositions # {} /\ ~ValidDirective) =>
              /\ exchange.pc = "save"
              /\ exchange.response = BeforeMarker
              /\ exchange.image_data = "None"
              /\ exchange.outcome = "none"

\* The second example of spec.md section 8: the marker and a prompt, but no
\* keyword in "hello, how are you?".
C3_Witness ==
    /\ exchange.pc = "save"
    /\ exchange.raw = TXT_DIRECTIVE
    /\ exchange.message = MSG_HOW
    /\ exchange.response = TXT_SURE
    /\ ~exchange.invoked

\* C4: a reply without the marker is the response, unchanged, whatever the
\* user's message: no image prompt, no synthesis, no image_data.
C4_NoMarkerUnchanged ==
    (Routed /\ MarkerPositions = {}) =>
        /\ exchange.pc = "save"
        /\ exchange.response = exchange.raw
        /\ exchange.image_prompt = <<>>
        /\ ~exchange.synthesize
        /\ ~exchange.invoked
        /\ exchange.image_data = "None"

\* "draw me a fox" answered by "IMAGE_REQUEST" (no colon): a keyword, no marker.
C4_Witness ==
    /\ exchange.pc = "save"
    /\ exchange.message = MSG_DRAW
    /\ exchange.raw = TXT_BARE
    /\ exchange.response = TXT_BARE

\* C5: a reply with the marker is split at its first occurrence: the text is
\* what precedes it, trimmed, the prompt what follows it, trimmed; with a
\* keyword in the user's message and a non-empty prompt, the clamped prompt is
\* the one given to generate_image.
C5_SplitAtFirstMarker ==
    (Routed /\ MarkerPositions # {}) =>
        /\ exchange.text_response = BeforeMarker
        /\ exchange.extracted = AfterMarker
        /\ (HasImageKeyword(exchange.message) /\ AfterMarker # <<>>) =>
              /\ exchange.synthesize
              /\ exchange.image_prompt = Clamp(AfterMarker)
              /\ image_generator = "loaded" => exchange.invoked

\* generate_image was called with a prompt that holds a later marker.
C5_Witness ==
    /\ exchange.pc = "image"
    /\ exchange.invoked
    /\ Cardinality(MarkerPositions) > 1
    /\ Contains(exchange.image_prompt, MARKER)

\* C6: the response never holds the marker, whether the directive is valid or
\* not and whether the synthesis succeeds or fails.
C6_MarkerNeverVisible == Routed => ~Contains(exchange.response, MARKER)

\* A valid directive whose synthesis raised: the response is the text before
\* the marker and the failure note.
C6_Witness ==
    /\ exchange.pc = "save"
    /\ exchange.outcome = "raise"
    /\ MarkerPositions # {}
    /\ exchange.response = BeforeMarker \o FAILURE_NOTE \o ENCODER_ERROR

\* The 0-based indices below PROMPT_LIMIT at which prompt holds one of chars.
CutPoints(prompt, chars) ==
    {i \in 0..(PROMPT_LIMIT - 1) : i < Len(prompt) /\ prompt[i + 1] \in chars}

\* The clamping as stated: cut at the last of chars before PROMPT_LIMIT when
\* that is past LAST_SPACE_FLOOR, else at PROMPT_LIMIT.
ClampedAt(prompt, chars) ==
    IF Len(prompt) <= PROMPT_LIMIT THEN prompt
    ELSE IF CutPoints(prompt, chars) # {} /\ Max(CutPoints(prompt, chars)) > LAST_SPACE_FLOOR
         THEN SubSeq(prompt, 1, Max(CutPoints(prompt, chars)))
         ELSE SubSeq(prompt, 1, PROMPT_LIMIT)

\* C7 as written: the cut is made at the last whitespace character.
C7_CutAtLastWhitespace ==
    (Routed /\ exchange.synthesize) =>
        exchange.image_prompt = ClampedAt(exchange.extracted, Whitespace)

\* C7, amended: the cut is made at the last space character (U+0020) before
\* character 300 when its index is past 200, else at 300; the prompt handed on
\* is a prefix of the extracted one, at most 300 characters long and, when
\* cut, at least 201.
C7_CutAtLastSpace ==
    (Routed /\ exchange.synthesize) =>
        /\ exchange.image_prompt = ClampedAt(exchange.extracted, {" "})
        /\ Len(exchange.image_prompt) <= PROMPT_LIMIT
        /\ exchange.image_prompt = Prefix(exchange.extracted, Len(exchange.image_prompt))
        /\ Len(exchange.extracted) > PROMPT_LIMIT =>
              Len(exchange.image_prompt) > LAST_SPACE_FLOOR

\* A prompt of more than 300 characters was cut at a space past index 200.
C7_Witness ==
    /\ exchange.synthesize
    /\ Len(exchange.extracted) > PROMPT_LIMIT
    /\ Len(exchange.image_prompt) < PROMPT_LIMIT
    /\ exchange.extracted[Len(exchange.image_prompt) + 1] = " "

-----------------------------------------------------------------------------
(* The server: claims C8-C10 (Spec) *)

\* Task t is a /chat handler between its read of the history and its add_message.
InHandler(t) == tasks[t].kind = "chat" /\ tasks[t].pc \in {"llm", "image"}

\* C8: whenever the synthesis of a valid directive fails (generate_image's
\* pipeline raises, or an exception reaches line 181), the exchange ends 200
\* with the text before the marker followed by the failure note, without
\* image_data, and its turn is appended to the session's store.
C8_FailedSynthesisLeavesNote ==
    \A t \in TaskIds :
        LET k == tasks[t]
            noted == k.text_response \o FAILURE_NOTE
        IN  (k.pc = "done" /\ k.kind = "chat" /\ k.synthesize
                /\ k.outcome \in {"raise", "lightgray"}) =>
               /\ k.status = 200
               /\ k.image_data = "None"
               /\ Len(k.response) >= Len(noted)
               /\ Prefix(k.response, Len(noted)) = noted
               /\ k.turn_index > 0

\* C9: a /chat handler that has read its session's history is the only one
\* of that session between read and add_message; until its add_message the
\* session stays bound to the store it read and that store is given no turn;
\* and the turn it appends is the next after the ones it read.
C9_SerializedPerSession ==
    \A t \in TaskIds :
        LET k == tasks[t]
        IN  /\ InHandler(t) =>
                  /\ \A u \in TaskIds \ {t} :
                        InHandler(u) => tasks[u].session_id # k.session_id
                  /\ k.session_id \in DOMAIN conversation_memories
                  /\ conversation_memories[k.session_id] = k.memory
                  /\ Len(heap[k.memory].appended) = k.read_len
            /\ (k.pc = "done" /\ k.kind = "chat" /\ k.status = 200) =>
                  k.turn_index = k.read_len + 1

\* Two /chat requests of one session are open: one is inside its model call
\* and has read a history that holds a turn, the other waits for the loop.
C9_Witness ==
    \E t \in TaskIds, u \in TaskIds :
        /\ tasks[t].pc = "llm"
        /\ tasks[t].read_len > 0
        /\ tasks[u].pc = "pending"
        /\ tasks[u].kind = "chat"
        /\ tasks[u].session_id = tasks[t].session_id

\* C10: at most one generate_response call and at most one generate_image
\* call is in flight.
C10_OneCallInFlight ==
    /\ Cardinality({t \in TaskIds : tasks[t].pc = "llm"}) <= 1
    /\ Cardinality({t \in TaskIds : tasks[t].pc = "image"}) <= 1

\* A generate_image call is in flight while a /chat request of another
\* session is open.
C10_Witness ==
    \E t \in TaskIds, u \in TaskIds :
        /\ tasks[t].pc = "image"
        /\ tasks[u].pc = "pending"
        /\ tasks[u].kind = "chat"
        /\ tasks[u].session_id # tasks[t].session_id

\* C11: while a /chat handler is inside generate_response or generate_image,
\* a pending request of another session can be begun by the request-handling
\* process (its handler is enabled), so that it is not held for the whole
\* duration of the call.
C11_CallsAreSuspensionPoints ==
    \A t \in TaskIds, u \in TaskIds :
        (/\ InHandler(t)
         /\ tasks[u].pc = "pending"
         /\ tasks[u].session_id # tasks[t].session_id)
            => ENABLED ((\E oracle \in ServerOracles : ChatBegin(u, oracle)) \/ ClearSession(u))

\* C12: a /chat handler that begins on a session_id the session map does not
\* hold binds it to one new store, empty and with the configured budget,
\* distinct from every store already bound, and leaves the other bindings
\* alone; the unknown id is never the reason of a 500 (only a missing
\* mistral_handler is).  On a known id it changes no binding and works on the
\* bound store.  A binding changes only by clear_session of its id, and a
\* bound store is never replaced by a fresh one: the turns it has been given
\* only grow.
C12_ImplicitCreation ==
    [][/\ \A t \in TaskIds :
            (tasks[t].pc = "pending" /\ tasks[t].kind = "chat" /\ tasks'[t].pc # "pending") =>
                LET s == tasks[t].session_id
                IN  /\ s \in DOMAIN conversation_memories'
                    /\ tasks'[t].status = 500 => mistral_handler = "None"
                    /\ tasks'[t].pc = "llm" => tasks'[t].memory = conversation_memories'[s]
                    /\ s \in DOMAIN conversation_memories =>
                            conversation_memories' = conversation_memories
                    /\ s \notin DOMAIN conversation_memories =>
                        LET o == conversation_memories'[s]
                        IN  /\ DOMAIN conversation_memories' = DOMAIN conversation_memories \cup {s}
                            /\ \A r \in DOMAIN conversation_memories :
                                  /\ conversation_memories'[r] = conversation_memories[r]
                                  /\ conversation_memories[r] # o
                            /\ heap'[o].max_tokens = settings.MAX_CONVERSATION_TOKENS
                            /\ heap'[o].messages = <<>>
                            /\ heap'[o].total_tokens = 0
                            /\ heap'[o].appended = <<>>
      /\ \A s \in DOMAIN conversation_memories :
            LET o == conversation_memories[s]
            IN  IF s \in DOMAIN conversation_memories'
                THEN /\ conversation_memories'[s] = o
                     /\ Len(heap'[o].appended) >= Len(heap[o].appended)
                     /\ SubSeq(heap'[o].appended, 1, Len(heap[o].appended)) = heap[o].appended
                ELSE \E t \in TaskIds :
                        /\ tasks[t].pc = "pending"
                        /\ tasks[t].kind = "delete"
                        /\ tasks[t].session_id = s
                        /\ tasks'[t].pc = "done"]_vars

\* A later /chat of a session is inside its model call on the store the
\* session's first /chat created, which holds that first exchange's turn.
C12_Witness ==
    \E t \in TaskIds :
        /\ tasks[t].pc = "llm"
        /\ tasks[t].read_len > 0
        /\ conversation_memories[tasks[t].session_id] = tasks[t].memory
        /\ heap[tasks[t].memory].max_tokens = settings.MAX_CONVERSATION_TOKENS
        /\ Len(heap[tasks[t].memory].messages) > 0

\* C13 as stated: every DELETE /session/{id} ends 200 with the confirmation
\* that the session was cleared, whether or not the id was bound, so that a
\* second DELETE of the id answers as the first did.
C13_ClearAlwaysConfirms ==
    \A t \in TaskIds :
        (tasks[t].pc = "done" /\ tasks[t].kind = "delete") =>
            /\ tasks[t].status = 200
            /\ tasks[t].outcome = "cleared"

\* C13, amended: every DELETE /session/{id} ends 200, with the confirmation
\* when the id was bound and with "Session not found" when it was not; after
\* it the id is unbound and the other sessions are as before; a DELETE of an
\* unbound id (such as a second DELETE) changes nothing; and a /chat that
\* begins on an unbound id reads an empty history.
C13_ClearForgetsSession ==
    [][/\ \A t \in TaskIds :
            (tasks[t].pc = "pending" /\ tasks[t].kind = "delete" /\ tasks'[t].pc # "pending") =>
                LET s == tasks[t].session_id
                    known == s \in DOMAIN conversation_memories
                IN  /\ tasks'[t].pc = "done"
                    /\ tasks'[t].status = 200
                    /\ tasks'[t].outcome = IF known THEN "cleared" ELSE "not found"
                    /\ s \notin DOMAIN conversation_memories'
                    /\ DOMAIN conversation_memories' = DOMAIN conversation_memories \ {s}
                    /\ \A r \in DOMAIN conversation_memories' :
                          /\ conversation_memories'[r] = conversation_memories[r]
                          /\ heap'[conversation_memories'[r]] = heap[conversation_memories[r]]
                    /\ ~known => (conversation_memories' = conversation_memories /\ heap' = heap)
       /\ \A t \in TaskIds :
            (/\ tasks[t].pc = "pending" /\ tasks[t].kind = "chat" /\ tasks'[t].pc # "pending"
             /\ tasks[t].session_id \notin DOMAIN conversation_memories) =>
                /\ tasks'[t].history = <<>>
                /\ tasks'[t].read_len = 0]_vars

\* A DELETE has cleared a bound session and the /chat of that session begun
\* after it is inside its model call, having read an empty history.
C13_Witness ==
    \E t \in TaskIds, u \in TaskIds :
        /\ tasks[u].pc = "done"
        /\ tasks[u].kind = "delete"
        /\ tasks[u].outcome = "cleared"
        /\ tasks[t].pc = "llm"
        /\ tasks[t].session_id = tasks[u].session_id
        /\ tasks[t].history = <<>>
        /\ tasks[t].read_len = 0

-----------------------------------------------------------------------------
(* Claims C14, C16, C17, C18: LanguageHandler (SpecLanguage) *)

\* Some keyword of some language's list occurs in the lower-cased text.
C14_SomeKeywordOccurs(text) ==
    \E lang \in DOMAIN self_image_keywords :
        \E i \in 1..Len(self_image_keywords[lang]) :
            Contains(Lower(text), self_image_keywords[lang][i])

\* C14: is_image_request(text, hint) returns true exactly when the lower-cased
\* text contains a keyword of any of the four lists, and every other hint (a
\* supported code, an unrecognised code, the empty string or none) gives the
\* same answer for that text.
C14_HintIsIrrelevant ==
    language_handler.last.method = "is_image_request"
        => /\ language_handler.last.flag = C14_SomeKeywordOccurs(language_handler.last.text)
           /\ \A hint \in Hints :
                  IsImageRequest(language_handler.last.text, hint)
                      = language_handler.last.flag

\* A text with a keyword of the Hindi list only, classified under the hint "fr".
C14_Witness ==
    /\ language_handler.last.method = "is_image_request"
    /\ language_handler.last.lang = "fr"
    /\ language_handler.last.text = MSG_TAIYAR
    /\ language_handler.last.flag
    /\ ~AnyKeywordIn(self_image_keywords["fr"], Lower(MSG_TAIYAR))

-----------------------------------------------------------------------------
(* Claim C15: the router's keyword gate against the classifier (SpecRoute) *)

\* C15: whenever the router has re-validated a directive, the gate it applied
\* to the user's message (has_image_keyword, main.py:156) has the truth value
\* of LanguageHandler.is_image_request(message) with no language hint.
C15_GateIsClassifier ==
    (Routed /\ exchange.marker)
        => (HasImageKeyword(exchange.message) = IsImageRequest(exchange.message, "None"))

\* The remap table of near-neighbours: ca, pt -> es; it -> fr; de, nl -> en.
C16_Remapped(code) ==
    CASE code \in {"ca", "pt"} -> "es"
      [] code = "it" -> "fr"
      [] code \in {"de", "nl"} -> "en"
      [] OTHER -> "en"

\* C16: every call of detect_language returns one of en, hi, es, fr, whatever
\* the text and whatever the oracle does: a supported code is returned as it
\* is, a remapped code gives its neighbour, any other code and an exception
\* give "en".
C16_DetectedIsSupported ==
    language_handler.last.method = "detect_language"
        => LET call == language_handler.last
           IN  /\ call.code \in {"en", "hi", "es", "fr"}
               /\ call.consulted
                    => call.code =
                          IF call.oracle.kind = "raise" THEN "en"
                          ELSE IF call.oracle.code \in {"en", "hi", "es", "fr"}
                               THEN call.oracle.code
                               ELSE C16_Remapped(call.oracle.code)

\* The language field of a /chat exchange is one of the four codes from the
\* moment detect_language has returned.
C16_ResponseLanguage ==
    \A t \in TaskIds :
        (tasks[t].kind = "chat" /\ tasks[t].pc \in {"llm", "image", "done"})
            => tasks[t].language \in {"en", "hi", "es", "fr"}

\* The oracle was asked and answered with a code (Russian) that has no remap,
\* and detect_language returned "en".
C16_Witness ==
    /\ language_handler.last.method = "detect_language"
    /\ language_handler.last.consulted
    /\ language_handler.last.oracle = [kind |-> "code", code |-> "ru"]
    /\ language_handler.last.code = "en"

\* The punctuation marks that occur in the texts.
C17_Punctuation == {"!", "?", ",", ".", ":", ";", "'", "[", "]", "/", "-", "(", ")"}

\* The cleaned form of a text: outer whitespace stripped, punctuation removed.
C17_Cleaned(text) == SelectSeq(Strip(text), LAMBDA c : c \notin C17_Punctuation)

\* C17: a call of detect_language on a text whose cleaned form has fewer than
\* 3 characters returns "en" and does not consult the oracle, whatever the
\* oracle would have done.
C17_ShortTextIsEnglish ==
    (/\ language_handler.last.method = "detect_language"
     /\ Len(C17_Cleaned(language_handler.last.text)) < 3)
        => /\ language_handler.last.code = "en"
           /\ ~language_handler.last.consulted

\* "ok!" (two characters once cleaned) while the oracle would have said "fr".
C17_Witness ==
    /\ language_handler.last.method = "detect_language"
    /\ language_handler.last.text = TXT_OK
    /\ Len(C17_Cleaned(TXT_OK)) = 2
    /\ language_handler.last.oracle = [kind |-> "code", code |-> "fr"]
    /\ language_handler.last.code = "en"
    /\ ~language_handler.last.consulted

-----------------------------------------------------------------------------
(* Claim C19: a failing model call (SpecRoute) *)

\* The model call failed: self.llm(...) raised, or its text is empty once
\* the whitespace around it is gone.
C19_ModelFailed ==
    \/ exchange.completion.kind = "raise"
    \/ /\ exchange.completion.kind = "text"
       /\ \A i \in 1..Len(exchange.completion.text) :
              exchange.completion.text[i] \in Whitespace

\* C19: when the model call fails or yields empty text, generate_response
\* returns an apology; no image step follows, the exchange ends with status
\* 200 (never 500), the apology is the response and it is the assistant text
\* of the turn stored.
C19_FailureIsAnApology ==
    (exchange.pc \in {"image", "save", "done"} /\ C19_ModelFailed)
        => /\ exchange.raw = IF exchange.completion.kind = "raise"
                             THEN APOLOGY_ERROR ELSE APOLOGY_EMPTY
           /\ exchange.pc # "image"
           /\ exchange.response = exchange.raw
           /\ exchange.status # 500
           /\ exchange.pc = "done"
                => /\ exchange.status = 200
                   /\ LET store == heap[conversation_memories[exchange.session_id]]
                      IN  /\ store.messages # <<>>
                          /\ store.messages[Len(store.messages)].human = exchange.message
                          /\ store.messages[Len(store.messages)].ai = exchange.raw

\* self.llm(...) raised for a message with an image keyword; the exchange
\* ended with 200 and the apology is stored.
C19_Witness ==
    /\ exchange.pc = "done"
    /\ exchange.completion.kind = "raise"
    /\ exchange.message = MSG_DRAW
    /\ exchange.status = 200
    /\ exchange.response = APOLOGY_ERROR
    /\ heap[1].messages = <<MessageEntry(MSG_DRAW, APOLOGY_ERROR)>>

-----------------------------------------------------------------------------
(* Claim C20: what is stored of a reply with a directive (SpecRoute) *)

\* The assistant texts of the turns the exchange's store retains.
C20_StoredTexts ==
    LET store == heap[conversation_memories[exchange.session_id]]
    IN  {store.messages[i].ai : i \in 1..Len(store.messages)}

\* The failure notes of line 183.
C20_FailureNotes == {FAILURE_NOTE \o e : e \in {ENCODER_ERROR, NONE_ATTRIBUTE_ERROR}}

\* C20 as stated: once the exchange has ended, no assistant text retained in
\* the store contains the marker, nor the image prompt that followed the
\* marker in the reply.
C20_NeitherMarkerNorPrompt ==
    exchange.pc = "done"
        => \A ai \in C20_StoredTexts :
              /\ ~Contains(ai, MARKER)
              /\ exchange.extracted # <<>> => ~Contains(ai, exchange.extracted)

\* C20, amended: the store is written only at the end of the exchange; the
\* assistant text then stored is the reply itself when it has no marker, and
\* otherwise the trimmed part of the reply before its first marker, followed
\* by the failure note exactly when the image step raised; it never contains
\* the marker.
C20_OnlyTextBeforeMarker ==
    /\ exchange.pc # "done" => C20_StoredTexts = {}
    /\ exchange.pc = "done"
         => /\ C20_StoredTexts # {}
            /\ \A ai \in C20_StoredTexts :
                  /\ ~Contains(ai, MARKER)
                  /\ MarkerPositions = {} => ai = exchange.raw
                  /\ (MarkerPositions # {} /\ exchange.outcome # "raise")
                        => ai = BeforeMarker
                  /\ (MarkerPositions # {} /\ exchange.outcome = "raise")
                        => ai \in {BeforeMarker \o note : note \in C20_FailureNotes}

\* A reply with text, the marker and a prompt, for a message with a keyword:
\* the image was made and the turn stored holds the text before the marker.
C20_Witness ==
    /\ exchange.pc = "done"
    /\ exchange.raw = TXT_HELP
    /\ exchange.invoked
    /\ exchange.outcome = "generated"
    /\ exchange.extracted = TXT_FOX
    /\ C20_StoredTexts = {BeforeMarker}
    /\ BeforeMarker # <<>>

\* In the server, no assistant text retained in any session's store contains
\* the marker.
C20_NoMarkerInAnyStore ==
    \A o \in DOMAIN heap :
        \A i \in 1..Len(heap[o].messages) : ~Contains(heap[o].messages[i].ai, MARKER)

-----------------------------------------------------------------------------
(* Claim C21: sessions do not touch one another (Spec) *)

\* The sessions of the handlers that run in this step.
C21_ActingSessions ==
    {tasks[t].session_id :
        t \in {u \in TaskIds : /\ tasks[u].pc \in {"pending", "llm", "image"}
                               /\ tasks'[u].pc # tasks[u].pc}}

\* C21: a step of a /chat or DELETE handler of one session leaves every
\* other session bound to its store, and the retained turns and the token
\* total of that store as they were; and the history a /chat handler reads
\* for its prompt is rendered from the store of its own session only (empty
\* when that store is empty, whatever the other sessions hold).
C21_SessionsAreIndependent ==
    [][/\ \A b \in DOMAIN conversation_memories \ C21_ActingSessions :
            /\ b \in DOMAIN conversation_memories'
            /\ conversation_memories'[b] = conversation_memories[b]
            /\ \A a \in DOMAIN conversation_memories' \ {b} :
                  conversation_memories'[a] # conversation_memories'[b]
            /\ heap'[conversation_memories'[b]].messages
                  = heap[conversation_memories[b]].messages
            /\ heap'[conversation_memories'[b]].total_tokens
                  = heap[conversation_memories[b]].total_tokens
       /\ \A t \in TaskIds :
            (tasks[t].pc = "pending" /\ tasks[t].kind = "chat" /\ tasks'[t].pc # "pending")
                => LET own == IF tasks[t].session_id \in DOMAIN conversation_memories
                              THEN heap[conversation_memories[tasks[t].session_id]].messages
                              ELSE <<>>
                   IN  /\ tasks'[t].history =
                              GetConversationString([NewMemory(0) EXCEPT !.messages = own],
                                                    DEFAULT_MAX_EXCHANGES)
                       /\ own = <<>> => tasks'[t].history = <<>>]_vars

\* A /chat of one session is inside its model call with a history read from
\* its own turns, while the other session holds turns of its own.
C21_Witness ==
    \E t \in TaskIds, a \in DOMAIN conversation_memories :
        /\ tasks[t].pc = "llm"
        /\ tasks[t].session_id # a
        /\ tasks[t].history # <<>>
        /\ heap[conversation_memories[a]].messages # <<>>
        /\ conversation_memories[a] # tasks[t].memory

-----------------------------------------------------------------------------
(* Claim C22: the running token total (SpecMemory) *)

RECURSIVE C22_SumOfEstimates(_)
\* The estimates of the turns, each len(human) // 4 + len(ai) // 4, summed.
C22_SumOfEstimates(turns) ==
    IF turns = <<>> THEN 0
    ELSE (Len(Head(turns).human) \div 4) + (Len(Head(turns).ai) \div 4)
         + C22_SumOfEstimates(Tail(turns))

\* total_tokens of the store is the sum of the estimates of its retained turns.
C22_TotalIsSum(m) == m.total_tokens = C22_SumOfEstimates(m.messages)

\* C22: before and after every add_message (with its evictions) and every
\* clear, the running total of a store equals the sum of the per-message
\* estimates of exactly the turns it retains; and clear leaves no turn and a
\* total of 0.
C22_TotalMatchesRetainedTurns ==
    [][\A o \in DOMAIN heap :
          /\ C22_TotalIsSum(heap[o])
          /\ C22_TotalIsSum(heap'[o])
          /\ Len(heap'[o].appended) <= Len(heap[o].appended)
                => /\ heap'[o].messages = <<>>
                   /\ heap'[o].total_tokens = 0]_vars

\* Turns were evicted, two turns are retained, one of them of two 3-character
\* texts (estimate 0 + 0, while 6 // 4 = 1), and the total is their sum.
C22_Witness ==
    \E o \in DOMAIN heap :
        /\ Len(heap[o].appended) > Len(heap[o].messages)
        /\ Len(heap[o].messages) = 2
        /\ \E i \in 1..2 : /\ Len(heap[o].messages[i].human) = 3
                           /\ Len(heap[o].messages[i].ai) = 3
        /\ heap[o].total_tokens > 0
        /\ C22_TotalIsSum(heap[o])

-----------------------------------------------------------------------------
(* Claim C23: the history window (SpecWindow) *)

\* One turn as a "Human:" line followed by an "Assistant:" line.
C23_TwoLines(turn) ==
    <<"H", "u", "m", "a", "n", ":", " ">> \o turn.human \o <<"\n">>
    \o <<"A", "s", "s", "i", "s", "t", "a", "n", "t", ":", " ">> \o turn.ai

RECURSIVE C23_Lines(_)
\* The turns in order, one blank line between two turns.
C23_Lines(turns) ==
    IF turns = <<>> THEN <<>>
    ELSE IF Len(turns) = 1 THEN C23_TwoLines(turns[1])
    ELSE C23_TwoLines(turns[1]) \o <<"\n", "\n">> \o C23_Lines(Tail(turns))

\* How many turns a window of max_exchanges shows of n retained ones.
C23_Shown(n, max_exchanges) ==
    IF max_exchanges <= 0 THEN n
    ELSE IF max_exchanges < n THEN max_exchanges ELSE n

\* C23: get_conversation_string(max_exchanges) leaves the store as it was and
\* returns the min(max_exchanges, turn count) most recent retained turns (all
\* of them when max_exchanges <= 0) in insertion order, each as a "Human:"
\* line followed by an "Assistant:" line, with the whitespace at the end
\* trimmed; the empty string for an empty store.
C23_WindowIsReadOnlyView ==
    [][/\ heap' = heap
       /\ LET turns == heap[exchange'.memory].messages
              n == Len(turns)
              k == C23_Shown(n, exchange'.max_exchanges)
          IN  /\ exchange'.history = Strip(C23_Lines(SubSeq(turns, n - k + 1, n)))
              /\ n = 0 => exchange'.history = <<>>]_vars

\* The default window of 5 on a store of 6 turns whose oldest turn differs
\* from the second oldest: the oldest turn is not shown.
C23_Witness ==
    /\ exchange.kind = "window"
    /\ exchange.max_exchanges = DEFAULT_MAX_EXCHANGES
    /\ Len(heap[1].messages) = 6
    /\ heap[1].messages[1] # heap[1].messages[2]
    /\ exchange.history = Strip(C23_Lines(Tail(heap[1].messages)))
    /\ exchange.history # Strip(C23_Lines(heap[1].messages))

-----------------------------------------------------------------------------
(* Claim C24: the layout of the prompt (SpecLanguage) *)

\* The system-policy template of a language code: the English one for a code
\* that is none of the four.
C24_Template(lang) ==
    IF lang \in {"en", "hi", "es", "fr"} THEN system_prompts[lang] ELSE system_prompts["en"]

\* The history has a character that is not whitespace.
C24_HasHistory(history) == \E i \in 1..Len(history) : history[i] \notin Whitespace

\* The labeled history block: the label, then the last 1000 characters of the
\* history (the whole history when it is shorter), then a blank line.
C24_HistoryBlock(history) ==
    <<"\n", "\n", "P", "r", "e", "v", "i", "o", "u", "s", " ", "c", "o", "n", "v",
      "e", "r", "s", "a", "t", "i", "o", "n", " ", "c", "o", "n", "t", "e", "x", "t",
      ":", "\n">>
    \o SubSeq(history, IF Len(history) > 1000 THEN Len(history) - 999 ELSE 1, Len(history))
    \o <<"\n", "\n">>

\* The labeled line of the current user message, with the assistant cue.
C24_MessageLine(message) ==
    <<"C", "u", "r", "r", "e", "n", "t", " ", "u", "s", "e", "r", " ", "m", "e", "s",
      "s", "a", "g", "e", ":", " ">> \o message
    \o <<"\n", "\n", "A", "s", "s", "i", "s", "t", "a", "n", "t", ":", "\n">>

\* C24: the prompt create_contextual_prompt returns is "[INST]", the template
\* of the language (the English one for an unrecognised code), the labeled
\* history block exactly when the history is not blank, holding at most its
\* last 1000 characters, the labeled line with the whole user message, and
\* "[/INST]", in this order and with nothing else.
C24_PromptLayout ==
    language_handler.last.method = "create_contextual_prompt"
        => LET call == language_handler.last
           IN  call.prompt =
                   <<"[", "I", "N", "S", "T", "]", "\n">>
                   \o C24_Template(call.lang) \o <<"\n">>
                   \o (IF C24_HasHistory(call.history)
                       THEN C24_HistoryBlock(call.history) ELSE <<>>)
                   \o C24_MessageLine(call.text)
                   \o <<"[", "/", "I", "N", "S", "T", "]">>

\* An unrecognised code ("de") with a history longer than 1000 characters:
\* the English template and a block of exactly the last 1000 characters.
C24_Witness ==
    /\ language_handler.last.method = "create_contextual_prompt"
    /\ language_handler.last.lang = "de"
    /\ Len(language_handler.last.history) > 1000
    /\ Len(language_handler.last.prompt)
          = 7 + Len(system_prompts["en"]) + 1 + (33 + 1000 + 2)
            + Len(C24_MessageLine(language_handler.last.text)) + 7

-----------------------------------------------------------------------------
(* Claim C25: a pipeline failure inside generate_image (SpecRoute) *)

C26_SameTurnsAndTotal(m, n) ==
    /\ m.messages = n.messages
    /\ m.total_tokens = n.total_tokens

\* C26: save_to_file and load_from_file return True or False and never raise;
\* a save leaves the store as it was; a load that returns True leaves in the
\* store the ordered turn list and the running total of the store the file was
\* saved from, and with nothing wrong on the file system a load of a saved
\* session does return True; a load that returns False, which is what a load
\* without a snapshot does, leaves the turn list and the total unchanged.
C26_PersistRoundTrip ==
    [][LET o == exchange'.memory
           session_id == exchange'.session_id
       IN  /\ exchange'.kind = "load" =>
                /\ exchange'.outcome \in {"True", "False"}
                /\ exchange'.outcome = "True" =>
                      /\ snapshots[session_id].saved
                      /\ C26_SameTurnsAndTotal(heap'[o], snapshots[session_id].memory)
                /\ exchange'.outcome = "False" => C26_SameTurnsAndTotal(heap'[o], heap[o])
                /\ conversations_dir[session_id].kind = "absent" => exchange'.outcome = "False"
                /\ (snapshots[session_id].saved /\ PersistLoad(o, session_id, "ok"))
                      => exchange'.outcome = "True"
                /\ \A p \in PersistStores \ {o} : heap'[p] = heap[p]
           /\ exchange'.kind = "save" =>
                /\ exchange'.outcome \in {"True", "False"}
                /\ heap' = heap
                /\ exchange'.outcome = "True" =>
                      /\ conversations_dir'[session_id].kind = "json"
                      /\ snapshots'[session_id].saved
                      /\ C26_SameTurnsAndTotal(snapshots'[session_id].memory, heap[o])
                /\ \A fault \in SaveFaults \ {"ok"} :
                      PersistSave(o, session_id, fault) => exchange'.outcome = "False"]_vars

C26_Witness ==
    /\ exchange.kind = "load" /\ exchange.outcome = "True" /\ exchange.memory = 2
    /\ conversations_dir["s1"].kind = "json"
    /\ Len(heap[2].messages) = 2
    /\ heap[2].messages[1].human = TXT_SKY
    /\ heap[2].messages[2].ai = TXT_QUOTED
    /\ heap[2].messages = heap[1].messages
    /\ heap[2].total_tokens = heap[1].total_tokens
    /\ heap[2].total_tokens > 0

\* The /chat handlers that return 200 in this step
C27_Returning ==
    {t \in TaskIds : /\ tasks[t].kind = "chat"
                     /\ tasks[t].pc \in {"llm", "image"}
                     /\ tasks'[t].pc = "done"
                     /\ tasks'[t].status = 200}

\* The /chat handlers that are inside generate_response or generate_image
\* after this step
C27_Waiting ==
    {t \in TaskIds : tasks[t].kind = "chat" /\ tasks'[t].pc \in {"llm", "image"}}

\* C27: the step in which a /chat handler returns 200 appends one turn, as
\* the newest retained turn, to the store of the request's session_id: the
\* request's message with the response returned to the caller, failure note
\* included; that store is extended by this one turn only and every other
\* session's store is as it was.  By then routing is done and, when an image
\* was to be synthesised, the image step is over.  A step that leaves a /chat
\* handler inside the text or image call appends nothing to any store.
C27_OneTurnPerExchange ==
    [][/\ \A t \in C27_Returning :
            LET session_id == tasks[t].session_id
                o == conversation_memories[session_id]
                turn == MessageEntry(tasks[t].message, tasks'[t].response)
            IN  /\ o = tasks[t].memory
                /\ conversation_memories' = conversation_memories
                /\ heap'[o].appended = Append(heap[o].appended, turn)
                /\ heap'[o].messages # <<>>
                /\ heap'[o].messages[Len(heap'[o].messages)] = turn
                /\ tasks'[t].turn_index = Len(heap'[o].appended)
                /\ tasks'[t].synthesize => tasks'[t].outcome # "none"
                /\ \/ tasks'[t].response = tasks'[t].text_response
                   \/ Prefix(tasks'[t].response, Len(tasks'[t].text_response \o FAILURE_NOTE))
                         = tasks'[t].text_response \o FAILURE_NOTE
                /\ \A b \in DOMAIN conversation_memories \ {session_id} :
                      heap'[conversation_memories[b]] = heap[conversation_memories[b]]
       /\ \A t \in C27_Waiting :
            \A b \in DOMAIN conversation_memories :
                heap'[conversation_memories'[b]].appended
                    = heap[conversation_memories[b]].appended]_vars

\* A /chat whose image step failed has returned 200 with the note in its
\* response, and the newest turn of its session's store, the second turn
\* appended to it, holds the request's message and that response.
C27_Witness ==
    \E t \in TaskIds :
        /\ tasks[t].kind = "chat" /\ tasks[t].pc = "done" /\ tasks[t].status = 200
        /\ Contains(tasks[t].response, FAILURE_NOTE)
        /\ tasks[t].turn_index = 2
        /\ tasks[t].session_id \in DOMAIN conversation_memories
        /\ LET m == heap[conversation_memories[tasks[t].session_id]]
           IN  /\ m.messages # <<>>
               /\ m.messages[Len(m.messages)] = MessageEntry(tasks[t].message, tasks[t].response)
               /\ Len(m.appended) = 2

\* The /chat handlers that end with a 500 in this step
C28_Failing ==
    {t \in TaskIds : /\ tasks[t].kind = "chat"
                     /\ tasks[t].pc # "done"
                     /\ tasks'[t].pc = "done"
                     /\ tasks'[t].status = 500}

\* C28: the step in which a /chat handler ends with a 500 appends no turn to
\* any store: every session bound before it is bound to the same store with
\* the same retained turns, token total and history of appends, and the store
\* of the failing request's own session, which the handler binds when the id
\* was unknown, has had no turn appended either.
C28_FailureAppendsNothing ==
    [][\A t \in C28_Failing :
          /\ \A b \in DOMAIN conversation_memories :
                /\ b \in DOMAIN conversation_memories'
                /\ conversation_memories'[b] = conversation_memories[b]
                /\ heap'[conversation_memories'[b]].messages
                      = heap[conversation_memories[b]].messages
                /\ heap'[conversation_memories'[b]].total_tokens
                      = heap[conversation_memories[b]].total_tokens
                /\ heap'[conversation_memories'[b]].appended
                      = heap[conversation_memories[b]].appended
          /\ DOMAIN conversation_memories'
                = DOMAIN conversation_memories \cup {tasks[t].session_id}
          /\ tasks[t].session_id \notin DOMAIN conversation_memories =>
                LET own == heap'[conversation_memories'[tasks[t].session_id]]
                IN  own.messages = <<>> /\ own.total_tokens = 0 /\ own.appended = <<>>
          /\ tasks'[t].turn_index = 0]_vars

\* A /chat of one session has ended with a 500 while another session is
\* bound, and the stores of both hold no turn.
C28_Witness ==
    \E t \in TaskIds :
        /\ tasks[t].kind = "chat" /\ tasks[t].pc = "done" /\ tasks[t].status = 500
        /\ mistral_handler = "None"
        /\ DOMAIN conversation_memories = Sessions
        /\ \A b \in Sessions :
              /\ heap[conversation_memories[b]].appended = <<>>
              /\ heap[conversation_memories[b]].messages = <<>>

====
